---- MODULE Spec2Model ----
(***************************************************************************)
(* EV_Central (electric_vehicle1/central/ev_central.py) as a state machine. *)
(*                                                                         *)
(* One thread per accepted socket runs _handle_client.  A thread's handler *)
(* is cut at its acquisitions of self.lock: one step is the code up to and *)
(* including one `with self.lock:` block (the first step of a handler      *)
(* starts with the read and the parse of the frame).  The lock is a        *)
(* threading.Lock (not reentrant): a block is entered only when            *)
(* lock = None.  The one place where the code calls a lock-taking function *)
(* inside a block (_handle_weather_alert calling add_log) is cut inside    *)
(* the block, so the state in which the thread holds the lock is visible.  *)
(*                                                                         *)
(* Units: energy in whole kWh, money in cents, price in cents per kWh.     *)
(* self.logs and self.cp_credentials are written and never read by any     *)
(* handler; they are left out.                                             *)
(***************************************************************************)
EXTENDS Integers, Sequences, FiniteSets, TLC

(***************************************************************************)
(* Bounds of the model.                                                    *)
(***************************************************************************)
MaxClock == 2       \* sessions that may be authorized in one run
MaxKwh == 1         \* cap on a record's accumulated kWh
MaxEnds == 2        \* termination signals (END_CHARGE, SUPPLY_END) received in one run

None == "None"
NoStart == 0        \* session_start = None (time.time() is never 0)

(***************************************************************************)
(* config.CP_STATES (values of the lifecycle state).                       *)
(***************************************************************************)
DISCONNECTED == "DISCONNECTED"
ACTIVATED == "ACTIVATED"
SUPPLYING == "SUPPLYING"
OUT_OF_ORDER == "OUT_OF_ORDER"
CP_STATES == {DISCONNECTED, ACTIVATED, SUPPLYING, OUT_OF_ORDER}

(***************************************************************************)
(* Identifiers that appear in messages, and the sockets Central accepts.   *)
(***************************************************************************)
CPs == {"CP1", "CP2"}
Drivers == {"D1", "D2"}
WEB_UI == "WEB_UI"
Entities == CPs \cup Drivers \cup {WEB_UI}
Sockets == {"s1", "s2", "s3", "s4"}
Price == 30
KeyOf(cp) == "key"

VARIABLES
    charging_points,     \* self.charging_points: a function on the known cp ids
    drivers,             \* self.drivers: a function on the registered driver ids
    entity_to_socket,    \* self.entity_to_socket
    socket_to_entity,    \* self.socket_to_entity
    socket_to_type,      \* self.socket_to_type
    monitors,            \* self.monitors
    active_connections,  \* self.active_connections (its sockets)
    cp_encryption_keys,  \* self.cp_encryption_keys
    lock,                \* the thread holding self.lock, or None
    pc,                  \* where each socket's thread stands
    ctx,                 \* the message a thread is handling and its locals
    clock,               \* time.time(), advanced by each authorization
    out,                 \* what the last step sent: a sequence of sends
    tickets,             \* TICKETs delivered, per (cp, driver)
    history,             \* storage.save_charging_session calls, per (cp, driver)
    opened,              \* sessions authorized, per (cp, driver)
    ends,                \* termination signals received, per (cp, driver)
    wire,                \* bytes a peer has sent that Central has not read yet
    buffer,              \* _handle_client's receive buffer, per socket
    handed,              \* what _handle_client did with each frame it took
    engine,              \* the charging-point engine process (EVCPEngine)
    mirror               \* the monitor's UIState.charging_points

vars == <<charging_points, drivers, entity_to_socket, socket_to_entity,
          socket_to_type, monitors, active_connections, cp_encryption_keys,
          lock, pc, ctx, clock, out, tickets, history, opened, ends,
          wire, buffer, handed, engine, mirror>>

registry == <<entity_to_socket, socket_to_entity, socket_to_type, monitors,
              active_connections>>
counts == <<tickets, history, opened>>
io == <<wire, buffer, handed, engine, mirror>>

(***************************************************************************)
(* Python dict operations on functions with a finite domain.               *)
(***************************************************************************)
Get(d, k) == IF k \in DOMAIN d THEN d[k] ELSE None
Put(d, k, v) == [x \in DOMAIN d \cup {k} |-> IF x = k THEN v ELSE d[x]]
Del(d, k) == [x \in DOMAIN d \ {k} |-> d[x]]
EmptyDict == [x \in {} |-> None]

(***************************************************************************)
(* Messages: fields[0] is type; the other fields by the name the handlers  *)
(* give them.  A field a message does not carry is None or 0.              *)
(***************************************************************************)
Msg(type, kind, id, cp, driver, kwh, amount, arg) ==
    [type |-> type, kind |-> kind, id |-> id, cp |-> cp, driver |-> driver,
     kwh |-> kwh, amount |-> amount, arg |-> arg]
NoMsg == Msg("NONE", None, None, None, None, 0, 0, None)
\* REGISTER|kind|id|...|username|password; cred: what the registry answers
Register(kind, id, cred) == Msg("REGISTER", kind, id, None, None, 0, 0, cred)
Heartbeat(cp, state) == Msg("HEARTBEAT", None, None, cp, None, 0, 0, state)
RequestCharge(d, cp, kwh) == Msg("REQUEST_CHARGE", None, None, cp, d, kwh, 0, None)
QueryAvailable(d) == Msg("QUERY_AVAILABLE_CPS", None, None, None, d, 0, 0, None)
SupplyUpdate(cp, inc, amt) == Msg("SUPPLY_UPDATE", None, None, cp, None, inc, amt, None)
SupplyEnd(cp, d, kwh, amt) == Msg("SUPPLY_END", None, None, cp, d, kwh, amt, None)
EndCharge(d, cp) == Msg("END_CHARGE", None, None, cp, d, 0, 0, None)
FinishCharge(d, cp) == Msg("FINISH_CHARGE", None, None, cp, d, 0, 0, None)
Fault(cp) == Msg("FAULT", None, None, cp, None, 0, 0, None)
Recovery(cp) == Msg("RECOVERY", None, None, cp, None, 0, 0, None)
Log == Msg("LOG", None, None, None, None, 0, 0, None)
WeatherAlert(cp, alert) == Msg("WEATHER_ALERT", None, None, cp, None, 0, 0, alert)

Send(to, type, cp, driver, kwh, amount, arg, locked) ==
    [to |-> to, type |-> type, cp |-> cp, driver |-> driver, kwh |-> kwh,
     amount |-> amount, arg |-> arg, locked |-> locked]

(***************************************************************************)
(* _broadcast_to_ui_protocol: sends to self.monitors["WEB_UI"] if present. *)
(***************************************************************************)
Broadcast(type, cp, driver, kwh, amount, arg, locked) ==
    IF WEB_UI \in DOMAIN monitors
    THEN <<Send(monitors[WEB_UI], type, cp, driver, kwh, amount, arg, locked)>>
    ELSE <<>>

PairZero == [p \in CPs \X Drivers |-> 0]

(***************************************************************************)
(* The byte streams and the engine process at rest: nothing in flight,     *)
(* empty receive buffers, no engine started, a monitor that knows no       *)
(* charging point.                                                         *)
(***************************************************************************)
NoEngine == [variant |-> None]
InitIo ==
    /\ wire = [s \in Sockets |-> <<>>]
    /\ buffer = [s \in Sockets |-> <<>>]
    /\ handed = [s \in Sockets |-> <<>>]
    /\ engine = NoEngine
    /\ mirror = EmptyDict

Init ==
    /\ charging_points = EmptyDict
    /\ drivers = EmptyDict
    /\ entity_to_socket = EmptyDict
    /\ socket_to_entity = EmptyDict
    /\ socket_to_type = EmptyDict
    /\ monitors = EmptyDict
    /\ active_connections = Sockets
    /\ cp_encryption_keys = EmptyDict
    /\ lock = None
    /\ pc = [s \in Sockets |-> "idle"]
    /\ ctx = [s \in Sockets |-> NoMsg]
    /\ clock = 1
    /\ out = <<>>
    /\ tickets = PairZero
    /\ history = PairZero
    /\ opened = PairZero
    /\ ends = PairZero
    /\ InitIo

(***************************************************************************)
(* The charging-point record written by _load_stored_cps/_handle_register. *)
(***************************************************************************)
CPRecord(state, driver, kwh, amount, start, complete, needed) ==
    [state |-> state, price_per_kwh |-> Price, current_driver |-> driver,
     kwh_delivered |-> kwh, amount_euro |-> amount, session_start |-> start,
     charging_complete |-> complete, kwh_needed |-> needed]
DriverRecord(status, cp) == [status |-> status, current_cp |-> cp]

Goto(s, label, m) == /\ pc' = [pc EXCEPT ![s] = label]
                     /\ ctx' = [ctx EXCEPT ![s] = m]
Done(s) == Goto(s, "idle", NoMsg)

(***************************************************************************)
(* _handle_register, entity_type == "DRIVER".                              *)
(***************************************************************************)
RegisterDriver(s, m) ==
    /\ lock = None
    /\ drivers' = Put(drivers, m.id, DriverRecord("IDLE", None))
    /\ entity_to_socket' = Put(entity_to_socket, m.id, s)
    /\ socket_to_entity' = Put(socket_to_entity, s, m.id)
    /\ socket_to_type' = Put(socket_to_type, s, "DRIVER")
    /\ Goto(s, "add_log", m)
    /\ out' = <<>>
    /\ UNCHANGED <<charging_points, monitors, active_connections,
                   cp_encryption_keys, lock, clock, counts>>

(***************************************************************************)
(* _handle_register, entity_type == "MONITOR" and entity_id == "WEB_UI".   *)
(***************************************************************************)
RegisterMonitor(s, m) ==
    /\ lock = None
    /\ monitors' = Put(monitors, WEB_UI, s)
    /\ socket_to_entity' = Put(socket_to_entity, s, WEB_UI)
    /\ socket_to_type' = Put(socket_to_type, s, "MONITOR")
    /\ Goto(s, "full_state", [m EXCEPT !.arg = s])
    /\ out' = <<Send(s, "ACKNOWLEDGE", None, None, 0, 0, "OK", FALSE)>>
    /\ UNCHANGED <<charging_points, drivers, entity_to_socket,
                   active_connections, cp_encryption_keys, lock, clock, counts>>

(***************************************************************************)
(* _send_full_state_to_ui: reads every record under the lock, then sends.  *)
(***************************************************************************)
SendFullState(s) ==
    /\ pc[s] = "full_state"
    /\ lock = None
    /\ out' = <<Send(ctx[s].arg, "FULL_STATE", None, None, 0, 0, None, FALSE)>>
    /\ Done(s)
    /\ UNCHANGED <<charging_points, drivers, registry, cp_encryption_keys, lock,
                   clock, counts, ends, io>>

(***************************************************************************)
(* _handle_register, entity_type == "CP": _verify_cp_credentials, then the *)
(* key and the binding.  The registry's answer is m.arg.                   *)
(***************************************************************************)
\* _verify_cp_credentials: True only for a 200 answer of the registry; any
\* other answer, an error or a timeout is False.
VerifiedAlways(m) == TRUE

Verified(m) == m.arg = "ok"

RegisterVerify(s, m) ==
    /\ IF Verified(m)
       THEN /\ lock = None
            /\ cp_encryption_keys' = Put(cp_encryption_keys, m.id, KeyOf(m.id))
            /\ entity_to_socket' = Put(entity_to_socket, m.id, s)
            /\ socket_to_entity' = Put(socket_to_entity, s, m.id)
            /\ socket_to_type' = Put(socket_to_type, s, "CP")
            /\ Goto(s, "reg_record", m)
            /\ out' = <<>>
       ELSE /\ out' = <<Send(s, "DENY", m.id, None, 0, 0, "AUTH_FAILED", FALSE)>>
            /\ Done(s)
            /\ UNCHANGED <<cp_encryption_keys, entity_to_socket,
                           socket_to_entity, socket_to_type>>
    /\ UNCHANGED <<charging_points, drivers, monitors, active_connections, lock,
                   clock, counts>>

(***************************************************************************)
(* _handle_register lines 789-808: the record after a registration.        *)
(***************************************************************************)
\* A registration that starts every record afresh, against which the
\* preservation of an open session is tried.
FreshRecord(cps, id) == CPRecord(ACTIVATED, None, 0, 0, NoStart, FALSE, 0)

RegisteredRecord(cps, id) ==
    LET had == id \in DOMAIN cps
        driver == IF had THEN cps[id].current_driver ELSE None
    IN CPRecord(IF driver # None THEN SUPPLYING ELSE ACTIVATED,
                driver,
                IF had THEN cps[id].kwh_delivered ELSE 0,
                IF had THEN cps[id].amount_euro ELSE 0,
                IF had THEN cps[id].session_start ELSE NoStart,
                IF had THEN cps[id].charging_complete ELSE FALSE,
                IF had THEN cps[id].kwh_needed ELSE 0)

RegisterRecord(s) ==
    /\ pc[s] = "reg_record"
    /\ lock = None
    /\ charging_points' = Put(charging_points, ctx[s].id,
                              RegisteredRecord(charging_points, ctx[s].id))
    /\ Goto(s, "add_log", ctx[s])
    /\ out' = <<Send(s, "ACKNOWLEDGE", ctx[s].id, None, 0, 0, "OK", FALSE)>>
    /\ UNCHANGED <<drivers, registry, cp_encryption_keys, lock, clock, counts, ends, io>>

(***************************************************************************)
(* add_log: takes the lock to append, then forwards LOG to the monitor.    *)
(* What the caller does next, up to its next use of the lock, is part of   *)
(* the step.                                                               *)
(***************************************************************************)
AfterLogLabel(m) ==
    CASE m.type = "REQUEST_CHARGE" -> "send_to_cp"
      [] m.type = "REGISTER" /\ m.kind = "CP" /\ WEB_UI \in DOMAIN monitors -> "full_state"
      [] OTHER -> "idle"

AfterLogSends(s, m) ==
    CASE m.type = "REQUEST_CHARGE" ->
            <<Send(s, "AUTHORIZE", m.cp, m.driver, m.kwh, m.amount, None, FALSE)>>
      [] m.type = "REGISTER" /\ m.kind = "DRIVER" ->
            <<Send(s, "ACKNOWLEDGE", m.id, None, 0, 0, "OK", FALSE)>>
      [] m.type = "FAULT" ->
            Broadcast("FAULT", m.cp, None, 0, 0, OUT_OF_ORDER, FALSE)
      [] m.type = "RECOVERY" ->
            Broadcast("RECOVERY", m.cp, None, 0, 0, ACTIVATED, FALSE)
      [] m.type = "WEATHER_ALERT" ->
            Broadcast("CP_STATE", m.cp, None, 0, 0, charging_points[m.cp].state, FALSE)
      [] OTHER -> <<>>

AddLogOf(s, m) ==
    /\ lock = None
    /\ out' = Broadcast("LOG", None, None, 0, 0, None, FALSE) \o AfterLogSends(s, m)
    /\ IF AfterLogLabel(m) = "idle"
       THEN Done(s)
       ELSE Goto(s, AfterLogLabel(m),
                 [m EXCEPT !.arg = IF m.type = "REGISTER" THEN monitors[WEB_UI] ELSE @])
    /\ UNCHANGED <<charging_points, drivers, registry, cp_encryption_keys, lock,
                   clock, counts>>

AddLog(s) ==
    /\ pc[s] = "add_log"
    /\ AddLogOf(s, ctx[s])
    /\ UNCHANGED <<ends, io>>

(***************************************************************************)
(* _handle_heartbeat.                                                      *)
(***************************************************************************)
HeartbeatRecord(cp, state) ==
    IF cp.state # SUPPLYING THEN [cp EXCEPT !.state = state] ELSE cp

HandleHeartbeat(s, m) ==
    /\ lock = None
    /\ charging_points' =
          IF m.cp \in DOMAIN charging_points
          THEN [charging_points EXCEPT ![m.cp] = HeartbeatRecord(@, m.arg)]
          ELSE charging_points
    /\ Done(s)
    /\ out' = <<>>
    /\ UNCHANGED <<drivers, registry, cp_encryption_keys, lock, clock, counts>>

(***************************************************************************)
(* _handle_query_available_cps.                                            *)
(***************************************************************************)
Available(cp) == cp.state = ACTIVATED /\ cp.current_driver = None

HandleQuery(s, m) ==
    /\ lock = None
    /\ out' = <<Send(s, "AVAILABLE_CPS", None, m.driver,
                     Cardinality({c \in DOMAIN charging_points :
                                     Available(charging_points[c])}),
                     0, None, FALSE)>>
    /\ Done(s)
    /\ UNCHANGED <<charging_points, drivers, registry, cp_encryption_keys, lock,
                   clock, counts>>

(***************************************************************************)
(* _handle_charge_request.                                                 *)
(***************************************************************************)
\* A weaker acceptance test (any connected charging point is accepted), against
\* which the properties of the acceptance are tried.
MayAuthorizeConnected(cp) == cp.state # DISCONNECTED

MayAuthorize(cp) == cp.state = ACTIVATED /\ cp.current_driver = None

DenyReason(cps, id) ==
    IF id \notin DOMAIN cps THEN "CP_NOT_FOUND"
    ELSE IF cps[id].state # ACTIVATED THEN "CP_STATE_" \o cps[id].state
    ELSE "CP_ALREADY_IN_USE"

AuthorizedRecord(cp, driver, needed, now) ==
    [cp EXCEPT !.state = SUPPLYING, !.current_driver = driver,
               !.session_start = now, !.kwh_delivered = 0, !.amount_euro = 0,
               !.kwh_needed = needed, !.charging_complete = FALSE]

Authorizes(cps, id) == id \in DOMAIN cps /\ MayAuthorize(cps[id])

HandleChargeRequest(s, m) ==
    /\ lock = None
    /\ IF Authorizes(charging_points, m.cp)
       THEN /\ charging_points' =
                  [charging_points EXCEPT ![m.cp] =
                      AuthorizedRecord(@, m.driver, m.kwh, clock)]
            /\ drivers' = IF m.driver \in DOMAIN drivers
                          THEN [drivers EXCEPT ![m.driver] =
                                   DriverRecord("CHARGING", m.cp)]
                          ELSE drivers
            /\ clock' = clock + 1
            /\ opened' = [opened EXCEPT ![<<m.cp, m.driver>>] = @ + 1]
            /\ Goto(s, "add_log",
                    [m EXCEPT !.amount = charging_points[m.cp].price_per_kwh])
            /\ out' = <<>>
       ELSE /\ out' = <<Send(s, "DENY", m.cp, m.driver, 0, 0,
                             DenyReason(charging_points, m.cp), TRUE)>>
            /\ Done(s)
            /\ UNCHANGED <<charging_points, drivers, clock, opened>>
    /\ UNCHANGED <<registry, cp_encryption_keys, lock, tickets, history>>

(***************************************************************************)
(* _cleanup_socket: the block under the lock.  own: the caller is the      *)
(* socket's own thread, whose client_id is a key of active_connections.    *)
(***************************************************************************)
\* A cleanup that keeps the driver and the completion flag of the record.
DisconnectedRecordKeepsDriver(cp) == [cp EXCEPT !.state = DISCONNECTED]

DisconnectedRecord(cp) ==
    [cp EXCEPT !.state = DISCONNECTED, !.current_driver = None,
               !.charging_complete = FALSE]

\* A cleanup that preserves no session, against which the early return of
\* _cleanup_socket is tried.
PreservesNoSession(sock) == FALSE

PreservesSession(sock) ==
    /\ Get(socket_to_type, sock) = "CP"
    /\ Get(socket_to_entity, sock) \in DOMAIN charging_points
    /\ charging_points[Get(socket_to_entity, sock)].state = SUPPLYING

MarksDisconnected(sock) ==
    /\ Get(socket_to_type, sock) = "CP"
    /\ Get(socket_to_entity, sock) \in DOMAIN charging_points
    /\ ~PreservesSession(sock)

\* A cleanup that deletes the entity's binding whichever socket holds it.
OwnsBindingAlways(sock, ent) == ent # None

\* Line 898: the binding is deleted only when it still is this socket's.
OwnsBinding(sock, ent) == ent # None /\ Get(entity_to_socket, ent) = sock

CleanupSection(sock, own) ==
    LET ent == Get(socket_to_entity, sock)
        typ == Get(socket_to_type, sock)
    IN /\ socket_to_entity' = Del(socket_to_entity, sock)
       /\ socket_to_type' = Del(socket_to_type, sock)
       /\ entity_to_socket' = IF OwnsBinding(sock, ent)
                              THEN Del(entity_to_socket, ent) ELSE entity_to_socket
       /\ monitors' = IF typ = "MONITOR" /\ Get(monitors, ent) = sock
                      THEN Del(monitors, ent) ELSE monitors
       /\ charging_points' = IF MarksDisconnected(sock)
                             THEN [charging_points EXCEPT ![ent] = DisconnectedRecord(@)]
                             ELSE charging_points
       /\ active_connections' = IF own /\ ~PreservesSession(sock)
                                THEN active_connections \ {sock}
                                ELSE active_connections

CleanupSends(sock) ==
    IF MarksDisconnected(sock)
    THEN Broadcast("CP_STATE", Get(socket_to_entity, sock), None, 0, 0, DISCONNECTED, TRUE)
    ELSE <<>>

(***************************************************************************)
(* _handle_client: the read returns nothing or fails, and the finally      *)
(* clause runs _cleanup_socket.                                            *)
(***************************************************************************)
Close(s) ==
    /\ pc[s] = "idle"
    /\ Goto(s, "closing", NoMsg)
    /\ out' = <<>>
    /\ UNCHANGED <<charging_points, drivers, registry, cp_encryption_keys, lock,
                   clock, counts, ends, io>>

Cleanup(s) ==
    /\ pc[s] = "closing"
    /\ lock = None
    /\ CleanupSection(s, TRUE)
    /\ out' = CleanupSends(s)
    /\ Goto(s, "closed", NoMsg)
    /\ UNCHANGED <<drivers, cp_encryption_keys, lock, clock, counts, ends, io>>

(***************************************************************************)
(* _send_to_cp, and what its caller does after it up to the next use of    *)
(* the lock.  A send fails on a socket that was closed, and may fail on    *)
(* one whose peer has gone; the failure runs _cleanup_socket on it.        *)
(***************************************************************************)
SendMayFail(sock) == IF sock = None THEN FALSE ELSE pc[sock] \in {"closing", "closed"}
SendMaySucceed(sock) == IF sock = None THEN TRUE ELSE pc[sock] # "closed"

AfterSendLabel(m) == IF m.type = "END_CHARGE" THEN "finalize" ELSE "idle"
AfterSendSends(m) ==
    IF m.type = "REQUEST_CHARGE"
    THEN Broadcast("DRIVER_START", m.cp, m.driver, 0, 0, None, FALSE)
    ELSE <<>>
CPCommand(m) == IF m.type = "REQUEST_CHARGE" THEN "AUTHORIZE" ELSE "END_SUPPLY"

SendToCP(s) ==
    /\ pc[s] = "send_to_cp"
    /\ lock = None
    /\ LET sock == Get(entity_to_socket, ctx[s].cp)
       IN \/ /\ SendMaySucceed(sock)
             /\ out' = (IF sock = None THEN <<>>
                        ELSE <<Send(sock, CPCommand(ctx[s]), ctx[s].cp, ctx[s].driver,
                                    ctx[s].kwh, 0,
                                    Get(cp_encryption_keys, ctx[s].cp), FALSE)>>)
                       \o AfterSendSends(ctx[s])
             /\ IF AfterSendLabel(ctx[s]) = "idle" THEN Done(s)
                ELSE Goto(s, AfterSendLabel(ctx[s]), ctx[s])
          \/ /\ SendMayFail(sock)
             /\ out' = <<>>
             /\ Goto(s, "cleanup_peer", [ctx[s] EXCEPT !.arg = sock])
    /\ UNCHANGED <<charging_points, drivers, registry, cp_encryption_keys, lock,
                   clock, counts, ends, io>>

CleanupPeer(s) ==
    /\ pc[s] = "cleanup_peer"
    /\ lock = None
    /\ CleanupSection(ctx[s].arg, FALSE)
    /\ out' = CleanupSends(ctx[s].arg) \o AfterSendSends(ctx[s])
    /\ IF AfterSendLabel(ctx[s]) = "idle" THEN Done(s)
       ELSE Goto(s, AfterSendLabel(ctx[s]), [ctx[s] EXCEPT !.arg = None])
    /\ UNCHANGED <<drivers, cp_encryption_keys, lock, clock, counts, ends, io>>

(***************************************************************************)
(* _handle_supply_update: the metering under the lock (lines 514-537).     *)
(* round(amount, 2) rounds to whole cents, which every amount here is.     *)
(***************************************************************************)
MeteredAmount(cp, inc, reported) ==
    LET computed_total == (cp.kwh_delivered + inc) * cp.price_per_kwh
    IN IF reported >= cp.amount_euro /\ 10 * reported >= 7 * computed_total
       THEN reported
       ELSE cp.amount_euro + inc * cp.price_per_kwh

CompletesUngated(cp, inc) ==
    /\ cp.kwh_needed > 0
    /\ cp.kwh_delivered + inc >= cp.kwh_needed

Completes(cp, inc) ==
    /\ cp.kwh_needed > 0
    /\ cp.kwh_delivered + inc >= cp.kwh_needed
    /\ ~cp.charging_complete

MeteredRecord(cp, inc, reported) ==
    [cp EXCEPT !.kwh_delivered = @ + inc,
               !.amount_euro = MeteredAmount(cp, inc, reported),
               !.charging_complete = @ \/ Completes(cp, inc)]

HandleSupplyUpdate(s, m) ==
    /\ lock = None
    /\ IF m.cp \notin DOMAIN charging_points
       THEN /\ Done(s)
            /\ out' = <<>>
            /\ UNCHANGED charging_points
       ELSE LET cp == charging_points[m.cp]
                new == MeteredRecord(cp, m.kwh, m.amount)
                complete == IF Completes(cp, m.kwh)
                            THEN Broadcast("CHARGING_COMPLETE", m.cp,
                                           cp.current_driver, 0, 0, None, TRUE)
                            ELSE <<>>
            IN /\ charging_points' = [charging_points EXCEPT ![m.cp] = new]
               /\ IF cp.current_driver # None
                  THEN /\ Goto(s, "forward_update",
                               [m EXCEPT !.driver = cp.current_driver,
                                         !.kwh = new.kwh_delivered,
                                         !.amount = new.amount_euro])
                       /\ out' = complete
                  ELSE /\ Done(s)
                       /\ out' = complete \o
                                 Broadcast("SUPPLY_UPDATE", m.cp, None,
                                           new.kwh_delivered, new.amount_euro, None, FALSE)
    /\ UNCHANGED <<drivers, registry, cp_encryption_keys, lock, clock, counts>>

ForwardUpdate(s) ==
    /\ pc[s] = "forward_update"
    /\ lock = None
    /\ LET dsock == Get(entity_to_socket, ctx[s].driver)
       IN out' = (IF dsock # None
                  THEN <<Send(dsock, "SUPPLY_UPDATE", ctx[s].cp, None, ctx[s].kwh,
                              ctx[s].amount, None, FALSE)>>
                  ELSE <<>>)
                 \o Broadcast("SUPPLY_UPDATE", ctx[s].cp, None, ctx[s].kwh,
                              ctx[s].amount, None, FALSE)
    /\ Done(s)
    /\ UNCHANGED <<charging_points, drivers, registry, cp_encryption_keys, lock,
                   clock, counts, ends, io>>

(***************************************************************************)
(* _finalize_charge: the reset under the lock (lines 565-583), then the    *)
(* persisting, the ticket and the monitor events (lines 585-611).          *)
(* _handle_supply_end calls it with the totals of the frame,               *)
(* _handle_end_charge with the totals it read.                             *)
(***************************************************************************)
\* A reset that keeps the live counters, against which the zeroing of
\* _finalize_charge is tried.
FinalizedRecordKeepsTotals(cp) ==
    [cp EXCEPT !.state = ACTIVATED, !.current_driver = None,
               !.session_start = NoStart, !.charging_complete = TRUE,
               !.kwh_needed = 0]

FinalizedRecord(cp) ==
    [cp EXCEPT !.state = ACTIVATED, !.current_driver = None,
               !.session_start = NoStart, !.charging_complete = TRUE,
               !.kwh_needed = 0, !.kwh_delivered = 0, !.amount_euro = 0]

FinalizedPoints(cps, cp_id, driver_id) ==
    IF cp_id \in DOMAIN cps
    THEN [cps EXCEPT ![cp_id] = FinalizedRecord(@)]
    ELSE cps

\* A finalize that leaves the driver's record as it was.
FinalizedDriversKept(drvs, cp_id, driver_id) == drvs

FinalizedDrivers(drvs, cp_id, driver_id) ==
    IF driver_id \in DOMAIN drvs
    THEN [drvs EXCEPT ![driver_id] = DriverRecord("IDLE", None)]
    ELSE drvs

FinalizeOf(s, m) ==
    /\ lock = None
    /\ charging_points' = FinalizedPoints(charging_points, m.cp, m.driver)
    /\ drivers' = FinalizedDrivers(drivers, m.cp, m.driver)
    /\ Goto(s, "ticket", m)
    /\ out' = <<>>
    /\ UNCHANGED <<registry, cp_encryption_keys, lock, clock, counts>>

HandleSupplyEnd(s, m) == FinalizeOf(s, m)

FinalizeReset(s) ==
    /\ pc[s] = "finalize"
    /\ FinalizeOf(s, ctx[s])
    /\ UNCHANGED <<ends, io>>

TicketSends(m, dsock) ==
    IF dsock # None
    THEN <<Send(dsock, "TICKET", m.cp, None, m.kwh, m.amount, None, FALSE)>>
    ELSE <<>>

\* storage.save_charging_session is called once by each _finalize_charge.
PersistedTwice(m) == 2
Persisted(m) == 1

FinalizeTicket(s) ==
    /\ pc[s] = "ticket"
    /\ lock = None
    /\ LET dsock == Get(entity_to_socket, ctx[s].driver)
           pair == <<ctx[s].cp, ctx[s].driver>>
       IN /\ history' = [history EXCEPT ![pair] = @ + Persisted(ctx[s])]
          /\ tickets' = [tickets EXCEPT ![pair] = @ + Len(TicketSends(ctx[s], dsock))]
          /\ out' = TicketSends(ctx[s], dsock)
                    \o Broadcast("DRIVER_STOP", ctx[s].cp, ctx[s].driver, 0, 0, None, FALSE)
                    \o Broadcast("SUPPLY_END", ctx[s].cp, ctx[s].driver, ctx[s].kwh,
                                 ctx[s].amount, None, FALSE)
    /\ Done(s)
    /\ UNCHANGED <<charging_points, drivers, registry, cp_encryption_keys, lock,
                   clock, opened, ends, io>>

(***************************************************************************)
(* _handle_end_charge: the totals are read under the lock (lines 663-670). *)
(***************************************************************************)
EndsSession(cps, cp_id, driver_id) ==
    cp_id \in DOMAIN cps /\ cps[cp_id].current_driver = driver_id

HandleEndCharge(s, m) ==
    /\ lock = None
    /\ IF EndsSession(charging_points, m.cp, m.driver)
       THEN Goto(s, "send_to_cp",
                 [m EXCEPT !.kwh = charging_points[m.cp].kwh_delivered,
                           !.amount = charging_points[m.cp].amount_euro])
       ELSE Done(s)
    /\ out' = <<>>
    /\ UNCHANGED <<charging_points, drivers, registry, cp_encryption_keys, lock,
                   clock, counts>>

(***************************************************************************)
(* _handle_fault and _handle_recovery.                                     *)
(***************************************************************************)
FaultRecord(cp) == [cp EXCEPT !.state = OUT_OF_ORDER]
\* A recovery that puts every record back in service.
RecoveryRecordAlways(cp) == [cp EXCEPT !.state = ACTIVATED]

RecoveryRecord(cp) == IF cp.state # SUPPLYING THEN [cp EXCEPT !.state = ACTIVATED] ELSE cp

HandleFault(s, m) ==
    /\ lock = None
    /\ charging_points' = IF m.cp \in DOMAIN charging_points
                          THEN [charging_points EXCEPT ![m.cp] = FaultRecord(@)]
                          ELSE charging_points
    /\ Goto(s, "add_log", m)
    /\ out' = <<>>
    /\ UNCHANGED <<drivers, registry, cp_encryption_keys, lock, clock, counts>>

HandleRecovery(s, m) ==
    /\ lock = None
    /\ charging_points' = IF m.cp \in DOMAIN charging_points
                          THEN [charging_points EXCEPT ![m.cp] = RecoveryRecord(@)]
                          ELSE charging_points
    /\ Goto(s, "add_log", m)
    /\ out' = <<>>
    /\ UNCHANGED <<drivers, registry, cp_encryption_keys, lock, clock, counts>>

(***************************************************************************)
(* _handle_weather_alert.  Its calls of add_log (lines 269 and 273) are    *)
(* made inside the `with self.lock:` block: the thread goes on to add_log  *)
(* holding the lock.                                                       *)
(***************************************************************************)
WeatherRecord(cp, alert) ==
    IF alert = "ALERT_COLD" THEN [cp EXCEPT !.state = OUT_OF_ORDER]
    ELSE IF alert = "WEATHER_OK" /\ cp.state # SUPPLYING THEN [cp EXCEPT !.state = ACTIVATED]
    ELSE cp

WeatherLogs(cp, alert) ==
    \/ alert = "ALERT_COLD"
    \/ alert = "WEATHER_OK" /\ cp.state # SUPPLYING

HandleWeatherAlert(s, m) ==
    /\ lock = None
    /\ IF m.cp \notin DOMAIN charging_points
       THEN /\ Done(s)
            /\ out' = <<>>
            /\ UNCHANGED <<charging_points, lock>>
       ELSE LET cp == charging_points[m.cp]
            IN /\ charging_points' =
                     [charging_points EXCEPT ![m.cp] = WeatherRecord(cp, m.arg)]
               /\ IF WeatherLogs(cp, m.arg)
                  THEN /\ lock' = s
                       /\ Goto(s, "add_log", m)
                       /\ out' = <<>>
                  ELSE /\ lock' = None
                       /\ Done(s)
                       /\ out' = Broadcast("CP_STATE", m.cp, None, 0, 0,
                                           cp.state, FALSE)
    /\ UNCHANGED <<drivers, registry, cp_encryption_keys, clock, counts>>

(***************************************************************************)
(* _process_fields: the handler a frame is dispatched to, run up to the    *)
(* end of its first block under the lock.  FINISH_CHARGE is rewritten to   *)
(* END_CHARGE; a type without a handler is ignored.                        *)
(***************************************************************************)
Dispatch(s, m) ==
    \/ m.type = "REGISTER" /\ m.kind = "DRIVER" /\ RegisterDriver(s, m)
    \/ m.type = "REGISTER" /\ m.kind = "MONITOR" /\ m.id = WEB_UI /\ RegisterMonitor(s, m)
    \/ m.type = "REGISTER" /\ m.kind = "CP" /\ RegisterVerify(s, m)
    \/ m.type = "HEARTBEAT" /\ HandleHeartbeat(s, m)
    \/ m.type = "REQUEST_CHARGE" /\ HandleChargeRequest(s, m)
    \/ m.type = "QUERY_AVAILABLE_CPS" /\ HandleQuery(s, m)
    \/ m.type = "SUPPLY_UPDATE" /\ HandleSupplyUpdate(s, m)
    \/ m.type = "SUPPLY_END" /\ HandleSupplyEnd(s, m)
    \/ m.type = "END_CHARGE" /\ HandleEndCharge(s, m)
    \/ m.type = "FINISH_CHARGE" /\ HandleEndCharge(s, EndCharge(m.driver, m.cp))
    \/ m.type = "FAULT" /\ HandleFault(s, m)
    \/ m.type = "RECOVERY" /\ HandleRecovery(s, m)
    \/ m.type = "LOG" /\ AddLogOf(s, m)
    \/ m.type = "WEATHER_ALERT" /\ HandleWeatherAlert(s, m)

IsEnd(m) == m.type \in {"END_CHARGE", "FINISH_CHARGE", "SUPPLY_END"}
EndsTotal == LET Sum[S \in SUBSET (CPs \X Drivers)] ==
                     IF S = {} THEN 0
                     ELSE LET p == CHOOSE q \in S : TRUE
                          IN ends[p] + Sum[S \ {p}]
             IN Sum[CPs \X Drivers]

(***************************************************************************)
(* What the model lets arrive: the counters of a run stay within bounds.   *)
(***************************************************************************)
WithinBounds(m) ==
    /\ m.type = "REQUEST_CHARGE" => clock <= MaxClock
    /\ IsEnd(m) => EndsTotal < MaxEnds
    /\ (m.type = "SUPPLY_UPDATE" /\ m.cp \in DOMAIN charging_points)
          => charging_points[m.cp].kwh_delivered + m.kwh <= MaxKwh

(***************************************************************************)
(* _handle_client: one frame read from the socket, parsed and handled.     *)
(***************************************************************************)
Handle(s, m) ==
    /\ pc[s] = "idle"
    /\ WithinBounds(m)
    /\ ends' = IF IsEnd(m) THEN [ends EXCEPT ![<<m.cp, m.driver>>] = @ + 1] ELSE ends
    /\ UNCHANGED io
    /\ Dispatch(s, m)

(***************************************************************************)
(* One later step of the handler a thread is in.                           *)
(***************************************************************************)
HandlerStep(s) ==
    \/ RegisterRecord(s)
    \/ AddLog(s)
    \/ SendToCP(s)
    \/ CleanupPeer(s)
    \/ ForwardUpdate(s)
    \/ FinalizeReset(s)
    \/ FinalizeTicket(s)

(***************************************************************************)
(* The frames each connection sends.  s1 is a charging-point engine, s2 a  *)
(* driver client, s3 a second driver asking for the same charging point,   *)
(* s4 the weather service's connection.                                    *)
(***************************************************************************)
Needs == {1}
Increments == {1}
Reported == {0, 40}
HeartbeatStates == {ACTIVATED, OUT_OF_ORDER}
Alerts == {"ALERT_COLD", "WEATHER_OK"}

EngineFrames(cp) ==
    {Register("CP", cp, r) : r \in {"ok", "denied", "error"}}
    \cup {Heartbeat(cp, st) : st \in HeartbeatStates}
    \cup {SupplyUpdate(cp, i, a) : i \in Increments, a \in Reported}
    \cup {SupplyEnd(cp, "D1", 1, Price)}
    \cup {Fault(cp), Recovery(cp)}

DriverFrames(d) ==
    {Register("DRIVER", d, None), QueryAvailable(d)}
    \cup {RequestCharge(d, cp, k) : cp \in CPs, k \in Needs}
    \cup {EndCharge(d, "CP1")}

RivalFrames(d) == {RequestCharge(d, "CP1", k) : k \in Needs}

WeatherFrames ==
    {Log} \cup {WeatherAlert(cp, a) : cp \in CPs, a \in Alerts}

Frames ==
    [s \in Sockets |->
        CASE s = "s1" -> EngineFrames("CP1")
          [] s = "s2" -> DriverFrames("D1")
          [] s = "s3" -> RivalFrames("D2")
          [] s = "s4" -> WeatherFrames
          [] OTHER -> {}]

Next ==
    \E s \in Sockets :
       \/ \E m \in Frames[s] : Handle(s, m)
       \/ HandlerStep(s)
       \/ (s = "s1" /\ Close(s))
       \/ Cleanup(s)

Spec == Init /\ [][Next]_vars

(***************************************************************************)
(* Two requests for one charging point in flight at once.  The threads of  *)
(* s2 and s3 have each read and parsed a REQUEST_CHARGE for CP1 and are    *)
(* about to enter _handle_charge_request; CP1 is registered on s1,         *)
(* ACTIVATED and free (charging_complete is True once a session was        *)
(* finalized on it); each driver has registered or not.                    *)
(***************************************************************************)
RaceNeeds == {1, 2}
Requesters == [s2 |-> "D1", s3 |-> "D2"]

SumOpened(cp) == opened[<<cp, "D1">>] + opened[<<cp, "D2">>]

InitRace ==
    /\ \E complete \in BOOLEAN :
          charging_points =
             [c \in {"CP1"} |-> CPRecord(ACTIVATED, None, 0, 0, NoStart, complete, 0)]
    /\ \E regs \in SUBSET DOMAIN Requesters :
          /\ drivers = [d \in {Requesters[s] : s \in regs} |-> DriverRecord("IDLE", None)]
          /\ entity_to_socket =
                [e \in {"CP1"} \cup {Requesters[s] : s \in regs} |->
                    IF e = "CP1" THEN "s1"
                    ELSE CHOOSE s \in regs : Requesters[s] = e]
          /\ socket_to_entity =
                [s \in {"s1"} \cup regs |-> IF s = "s1" THEN "CP1" ELSE Requesters[s]]
          /\ socket_to_type =
                [s \in {"s1"} \cup regs |-> IF s = "s1" THEN "CP" ELSE "DRIVER"]
    /\ monitors = EmptyDict
    /\ active_connections = Sockets
    /\ cp_encryption_keys = [c \in {"CP1"} |-> KeyOf(c)]
    /\ lock = None
    /\ pc = [s \in Sockets |-> IF s \in DOMAIN Requesters THEN "request" ELSE "idle"]
    /\ \E k2 \in RaceNeeds, k3 \in RaceNeeds :
          ctx = [s \in Sockets |->
                    CASE s = "s2" -> RequestCharge(Requesters.s2, "CP1", k2)
                      [] s = "s3" -> RequestCharge(Requesters.s3, "CP1", k3)
                      [] OTHER -> NoMsg]
    /\ clock = 1
    /\ out = <<>>
    /\ tickets = PairZero
    /\ history = PairZero
    /\ opened = PairZero
    /\ ends = PairZero
    /\ InitIo

ChargeRequest(s) ==
    /\ pc[s] = "request"
    /\ HandleChargeRequest(s, ctx[s])
    /\ UNCHANGED <<ends, io>>

NextRace == \E s \in Sockets : ChargeRequest(s) \/ AddLog(s) \/ SendToCP(s)

SpecRace == InitRace /\ [][NextRace]_vars

(***************************************************************************)
(* C1: when two REQUEST_CHARGE messages for one ACTIVATED, free charging   *)
(* point are handled concurrently on two connections, then under every     *)
(* interleaving exactly one is authorized (the charging point becomes      *)
(* SUPPLYING with that driver) and the other is answered with DENY; they   *)
(* never both succeed.  As long as a request is still to be handled at     *)
(* most one was authorized; once both were handled exactly one was, and    *)
(* the record is SUPPLYING with that one's driver; and the step that       *)
(* handles a request either authorizes it (which it does only on an        *)
(* ACTIVATED, free record) or sends a DENY to its requester.               *)
(***************************************************************************)
RaceHandled == \A s \in DOMAIN Requesters : pc[s] # "request"

C1_AtMostOne ==
    /\ SumOpened("CP1") <= 1
    /\ RaceHandled =>
          /\ SumOpened("CP1") = 1
          /\ charging_points["CP1"].state = SUPPLYING
          /\ charging_points["CP1"].current_driver \in Drivers
          /\ opened[<<"CP1", charging_points["CP1"].current_driver>>] = 1

C1_RequestStep ==
    \A s \in DOMAIN Requesters :
       (pc[s] = "request" /\ pc'[s] # "request") =>
          \/ /\ charging_points["CP1"].state = ACTIVATED
             /\ charging_points["CP1"].current_driver = None
             /\ charging_points'["CP1"].state = SUPPLYING
             /\ charging_points'["CP1"].current_driver = Requesters[s]
             /\ opened' = [opened EXCEPT ![<<"CP1", Requesters[s]>>] = @ + 1]
             /\ pc'[s] = "add_log"
          \/ /\ charging_points["CP1"].state = SUPPLYING
             /\ charging_points' = charging_points
             /\ opened' = opened
             /\ \E i \in 1..Len(out') : out'[i].to = s /\ out'[i].type = "DENY"

C1_ExactlyOneAuthorized == []C1_AtMostOne /\ [][C1_RequestStep]_vars

\* C1 witness: both requests were handled, one authorized and one denied.
C1_RaceDecided ==
    /\ RaceHandled
    /\ SumOpened("CP1") = 1
    /\ \E i \in 1..Len(out) : out[i].type = "DENY"

(***************************************************************************)
(* C2: a REQUEST_CHARGE is denied exactly when the charging point id is    *)
(* unknown (reason CP_NOT_FOUND), the charging point is not ACTIVATED      *)
(* (reason CP_STATE_<state>), or it is ACTIVATED and already has a driver  *)
(* (reason CP_ALREADY_IN_USE); a denied request sends one DENY to the      *)
(* requester and leaves every charging-point record, every driver record   *)
(* and the connection bindings unchanged; a request that is not denied is  *)
(* authorized.                                                             *)
(***************************************************************************)
C2_MustDeny(cp_id) ==
    IF cp_id \notin DOMAIN charging_points THEN TRUE
    ELSE \/ charging_points[cp_id].state # ACTIVATED
         \/ charging_points[cp_id].current_driver # None

C2_Reason(cp_id) ==
    IF cp_id \notin DOMAIN charging_points THEN "CP_NOT_FOUND"
    ELSE IF charging_points[cp_id].state # ACTIVATED
         THEN "CP_STATE_" \o charging_points[cp_id].state
         ELSE "CP_ALREADY_IN_USE"

C2_SendsDeny(s) == \E i \in 1..Len(out') : out'[i].to = s /\ out'[i].type = "DENY"

C2_RequestStep ==
    \A s \in Sockets : \A m \in Frames[s] :
       (m.type = "REQUEST_CHARGE" /\ Handle(s, m)) =>
          /\ C2_SendsDeny(s) <=> C2_MustDeny(m.cp)
          /\ C2_SendsDeny(s) =>
                /\ out' = <<Send(s, "DENY", m.cp, m.driver, 0, 0, C2_Reason(m.cp), TRUE)>>
                /\ charging_points' = charging_points
                /\ drivers' = drivers
                /\ registry' = registry
                /\ cp_encryption_keys' = cp_encryption_keys
                /\ opened' = opened
          /\ ~C2_SendsDeny(s) =>
                /\ opened'[<<m.cp, m.driver>>] = opened[<<m.cp, m.driver>>] + 1
                /\ charging_points'[m.cp].state = SUPPLYING
                /\ charging_points'[m.cp].current_driver = m.driver

C2_DeniedExactlyWhen == [][C2_RequestStep]_vars

\* C2 witness: a request was just denied on an ACTIVATED charging point that
\* still has the driver of an earlier session.
C2_DeniedInUse ==
    \E i \in 1..Len(out) :
       /\ out[i].type = "DENY"
       /\ out[i].arg = "CP_ALREADY_IN_USE"
       /\ out[i].cp \in DOMAIN charging_points
       /\ charging_points[out[i].cp].state = ACTIVATED
       /\ charging_points[out[i].cp].current_driver \in Drivers

Finalizing(p) ==
    {s \in Sockets : /\ IsEnd(ctx[s])
                     /\ <<ctx[s].cp, ctx[s].driver>> = p
                     /\ pc[s] \in {"send_to_cp", "cleanup_peer", "finalize", "ticket"}}

C4_Reset(s) ==
    LET m == ctx'[s]
    IN /\ IsEnd(m)
       /\ m.cp \in DOMAIN charging_points =>
             /\ charging_points'[m.cp].state = ACTIVATED
             /\ charging_points'[m.cp].current_driver = None
             /\ charging_points'[m.cp].kwh_delivered = 0
             /\ charging_points'[m.cp].amount_euro = 0
       /\ pc[s] = "finalize" => m = ctx[s]
       /\ pc[s] = "idle" => m \in Frames[s]

C4_Billing(s) ==
    LET m == ctx[s]
        p == <<m.cp, m.driver>>
    IN /\ history' = [history EXCEPT ![p] = @ + 1]
       /\ charging_points' = charging_points
       /\ \A i \in 1..Len(out') :
             out'[i].type \in {"TICKET", "SUPPLY_END"} =>
                out'[i].kwh = m.kwh /\ out'[i].amount = m.amount
       /\ m.driver \in DOMAIN entity_to_socket =>
             /\ tickets' = [tickets EXCEPT ![p] = @ + 1]
             /\ \E i \in 1..Len(out') :
                   out'[i].type = "TICKET" /\ out'[i].to = entity_to_socket[m.driver]

C4_FinalizeStep ==
    \A s \in Sockets :
       /\ (pc[s] # "ticket" /\ pc'[s] = "ticket") => C4_Reset(s)
       /\ (pc[s] = "ticket" /\ pc'[s] # "ticket") => C4_Billing(s)

C4_FinalizeTwice == [][C4_FinalizeStep]_vars

\* C4 witness: a second finalize for a pair has reset the record again and is
\* about to bill the totals passed to it, which the record no longer holds.
C4_SecondFinalize ==
    \E s \in Sockets :
       /\ pc[s] = "ticket"
       /\ history[<<ctx[s].cp, ctx[s].driver>>] >= 1
       /\ ctx[s].amount > 0
       /\ ctx[s].cp \in DOMAIN charging_points
       /\ charging_points[ctx[s].cp].state = ACTIVATED
       /\ charging_points[ctx[s].cp].amount_euro = 0

(***************************************************************************)
(* C5 as stated: once the sessions opened for a (charging point, driver)   *)
(* have been finalized (the charging point's current driver is not that    *)
(* driver, and as many session records were persisted for the pair as      *)
(* sessions were opened), a further termination signal for the pair (a     *)
(* second END_CHARGE or a late SUPPLY_END) leaves the charging-point       *)
(* records and the driver records as they were, whatever was handled in    *)
(* between.                                                                *)
(***************************************************************************)
C5_Finalized(cp_id, driver_id) ==
    /\ opened[<<cp_id, driver_id>>] >= 1
    /\ history[<<cp_id, driver_id>>] >= opened[<<cp_id, driver_id>>]
    /\ cp_id \in DOMAIN charging_points
    /\ charging_points[cp_id].current_driver # driver_id

C5_DuplicateStep ==
    \A s \in Sockets :
       /\ \A m \in Frames[s] :
             (IsEnd(m) /\ C5_Finalized(m.cp, m.driver) /\ Handle(s, m)) =>
                (charging_points' = charging_points /\ drivers' = drivers)
       /\ (pc[s] = "finalize" /\ pc'[s] = "ticket"
              /\ C5_Finalized(ctx[s].cp, ctx[s].driver)) =>
                (charging_points' = charging_points /\ drivers' = drivers)

C5_DuplicateIsNoOp == [][C5_DuplicateStep]_vars

(***************************************************************************)
(* C6: when the socket of a charging point whose record is SUPPLYING is    *)
(* cleaned up (its own thread's read ended, or a send to it failed), every *)
(* charging-point record stays as it was (state, current_driver, energy,   *)
(* amount, session start and energy needed included), and so do the driver *)
(* records; the only change is that the socket's bindings leave            *)
(* socket_to_entity, socket_to_type and entity_to_socket.                  *)
(***************************************************************************)
C6_Supplying(t) ==
    /\ t \in DOMAIN socket_to_type
    /\ socket_to_type[t] = "CP"
    /\ t \in DOMAIN socket_to_entity
    /\ socket_to_entity[t] \in DOMAIN charging_points
    /\ charging_points[socket_to_entity[t]].state = SUPPLYING

C6_OnlyBindings(t) ==
    /\ charging_points' = charging_points
    /\ drivers' = drivers
    /\ socket_to_entity' = Del(socket_to_entity, t)
    /\ socket_to_type' = Del(socket_to_type, t)
    /\ entity_to_socket' =
          IF Get(entity_to_socket, socket_to_entity[t]) = t
          THEN Del(entity_to_socket, socket_to_entity[t])
          ELSE entity_to_socket
    /\ monitors' = monitors
    /\ active_connections' = active_connections
    /\ cp_encryption_keys' = cp_encryption_keys
    /\ counts' = counts

C6_CleanupStep ==
    \A s \in Sockets :
       /\ (pc[s] = "closing" /\ pc'[s] = "closed" /\ C6_Supplying(s))
             => C6_OnlyBindings(s)
       /\ (pc[s] = "cleanup_peer" /\ pc'[s] # "cleanup_peer" /\ C6_Supplying(ctx[s].arg))
             => C6_OnlyBindings(ctx[s].arg)

C6_SessionSurvivesCleanup == [][C6_CleanupStep]_vars

\* C6 witness: the engine's socket was closed and cleaned up during a session
\* that had metered energy; the record still holds the session.
C6_ClosedWhileSupplying ==
    /\ pc["s1"] = "closed"
    /\ "s1" \notin DOMAIN socket_to_entity
    /\ "CP1" \notin DOMAIN entity_to_socket
    /\ "CP1" \in DOMAIN charging_points
    /\ charging_points["CP1"].state = SUPPLYING
    /\ charging_points["CP1"].current_driver \in Drivers
    /\ charging_points["CP1"].kwh_delivered > 0

(***************************************************************************)
(* C7: a successful charging-point REGISTER, from any prior state of the   *)
(* record, leaves the record ACTIVATED when it has no current driver and   *)
(* SUPPLYING when a session was open, and then current_driver, energy,     *)
(* amount, session start and energy needed are what they were.             *)
(***************************************************************************)
C7_SessionOpen(id) ==
    IF id \in DOMAIN charging_points
    THEN charging_points[id].current_driver # None
    ELSE FALSE

C7_RegisterStep ==
    \A s \in Sockets :
       (pc[s] = "reg_record" /\ pc'[s] # "reg_record") =>
          LET id == ctx[s].id
              new == charging_points'[id]
          IN IF C7_SessionOpen(id)
             THEN /\ new.state = SUPPLYING
                  /\ new.current_driver = charging_points[id].current_driver
                  /\ new.kwh_delivered = charging_points[id].kwh_delivered
                  /\ new.amount_euro = charging_points[id].amount_euro
                  /\ new.session_start = charging_points[id].session_start
                  /\ new.kwh_needed = charging_points[id].kwh_needed
             ELSE /\ new.state = ACTIVATED
                  /\ new.current_driver = None

C8_ColdApplied(s) ==
    /\ pc[s] = "add_log"
    /\ ctx[s].type = "WEATHER_ALERT"
    /\ ctx[s].arg = "ALERT_COLD"
    /\ charging_points[ctx[s].cp].state = OUT_OF_ORDER

C9_WeatherStep ==
    \A s \in Sockets : \A m \in Frames[s] :
       (/\ m.type = "WEATHER_ALERT"
        /\ m.cp \in DOMAIN charging_points
        /\ Handle(s, m)) =>
          (charging_points[m.cp].state = SUPPLYING
              => charging_points'[m.cp].state = SUPPLYING)

C9_SupplyingUnaffected == [][C9_WeatherStep]_vars

(***************************************************************************)
(* C10 as stated: no handler keeps the lock for ever.  A thread that holds *)
(* the lock between two steps can take its next step, the one that         *)
(* releases it.                                                            *)
(***************************************************************************)
C10_LockIsReleased == \A t \in Sockets : lock = t => ENABLED HandlerStep(t)

(***************************************************************************)
(* What a charging-point connection may put on the wire.  Central reads    *)
(* the energy increment, the amount and the heartbeat's state as they      *)
(* come: float(fields[2]), float(fields[3]) and fields[2] are not checked. *)
(* CP1 is registered on s1 and either free or in a session of D1 (who is   *)
(* registered on s2); the monitor is registered on s4.  The engine reports *)
(* an amount of 0, the amount of the increment, or its running total; it   *)
(* may reconnect on s3 after s1 has gone.                                  *)
(***************************************************************************)
MaxMeter == 4       \* cap on a record's accumulated kWh in SpecEngine
MeterIncrements == {0 - 1, 1, 3}
MeterNeeds == {0, 2}
WireStates == {ACTIVATED, SUPPLYING, "MAINTENANCE"}

EngineRecords ==
    {CPRecord(ACTIVATED, None, 0, 0, NoStart, FALSE, 0)}
    \cup {CPRecord(SUPPLYING, "D1", 0, 0, 1, FALSE, k) : k \in MeterNeeds}

InitEngine ==
    /\ \E r \in EngineRecords :
          /\ charging_points = [c \in {"CP1"} |-> r]
          /\ drivers = [d \in {"D1"} |->
                           IF r.current_driver = "D1"
                           THEN DriverRecord("CHARGING", "CP1")
                           ELSE DriverRecord("IDLE", None)]
          /\ opened = [PairZero EXCEPT ![<<"CP1", "D1">>] =
                           IF r.current_driver = "D1" THEN 1 ELSE 0]
          /\ clock = IF r.current_driver = "D1" THEN 2 ELSE 1
    /\ entity_to_socket = [e \in {"CP1", "D1"} |-> IF e = "CP1" THEN "s1" ELSE "s2"]
    /\ socket_to_entity =
          [s \in {"s1", "s2", "s4"} |->
              CASE s = "s1" -> "CP1" [] s = "s2" -> "D1" [] OTHER -> WEB_UI]
    /\ socket_to_type =
          [s \in {"s1", "s2", "s4"} |->
              CASE s = "s1" -> "CP" [] s = "s2" -> "DRIVER" [] OTHER -> "MONITOR"]
    /\ monitors = [e \in {WEB_UI} |-> "s4"]
    /\ active_connections = Sockets
    /\ cp_encryption_keys = [c \in {"CP1"} |-> KeyOf(c)]
    /\ lock = None
    /\ pc = [s \in Sockets |-> "idle"]
    /\ ctx = [s \in Sockets |-> NoMsg]
    /\ out = <<>>
    /\ tickets = PairZero
    /\ history = PairZero
    /\ ends = PairZero
    /\ InitIo

\* The frames a connection bound to cp_id sends, given what Central holds.
EngineReports(cp_id, i) ==
    {a \in {0, i * Price, (charging_points[cp_id].kwh_delivered + i) * Price} : a >= 0}

EngineWire(cp_id) ==
    {SupplyUpdate(cp_id, i, a) : i \in MeterIncrements, a \in 0..(MaxMeter * Price)}
    \cup {Heartbeat(cp_id, st) : st \in WireStates}
    \cup {SupplyEnd(cp_id, "D1", 1, Price), Fault(cp_id)}

EngineSends(s, m) ==
    /\ Get(socket_to_entity, s) = m.cp
    /\ Get(socket_to_type, s) = "CP"
    /\ m.type = "SUPPLY_UPDATE" =>
          /\ m.amount \in EngineReports(m.cp, m.kwh)
          /\ charging_points[m.cp].kwh_delivered + m.kwh \in (0 - 1)..MaxMeter
    /\ m.type = "SUPPLY_END" => EndsTotal < MaxEnds

EngineFrame(s) ==
    \E m \in EngineWire("CP1") :
       /\ pc[s] = "idle"
       /\ EngineSends(s, m)
       /\ ends' = IF IsEnd(m) THEN [ends EXCEPT ![<<m.cp, m.driver>>] = @ + 1] ELSE ends
       /\ UNCHANGED io
       /\ Dispatch(s, m)

Reconnect(s) ==
    /\ pc[s] = "idle"
    /\ s \notin DOMAIN socket_to_entity
    /\ pc["s1"] = "closed"
    /\ UNCHANGED <<ends, io>>
    /\ Dispatch(s, Register("CP", "CP1", "ok"))

DriverAsks(s) ==
    /\ pc[s] = "idle"
    /\ clock <= MaxClock
    /\ UNCHANGED <<ends, io>>
    /\ Dispatch(s, RequestCharge("D1", "CP1", 2))

NextEngine ==
    \/ \E s \in {"s1", "s3"} : EngineFrame(s)
    \/ Reconnect("s3")
    \/ DriverAsks("s2")
    \/ Close("s1")
    \/ \E s \in Sockets :
          \/ Cleanup(s)
          \/ RegisterRecord(s)
          \/ AddLog(s)
          \/ SendFullState(s)
          \/ SendToCP(s)
          \/ CleanupPeer(s)
          \/ ForwardUpdate(s)
          \/ FinalizeTicket(s)

SpecEngine == InitEngine /\ [][NextEngine]_vars

(***************************************************************************)
(* C11: every read and every write of the shared tables is made while the  *)
(* lock is held.  _broadcast_to_ui_protocol reads self.monitors and sends  *)
(* to the socket it finds in one go, so a broadcast whose send runs with   *)
(* no lock held has read self.monitors with no lock held.  The claim asks  *)
(* that every message of the broadcast helper be produced under the lock.  *)
(***************************************************************************)
C11_Broadcasts ==
    {"LOG", "SUPPLY_UPDATE", "CHARGING_COMPLETE", "DRIVER_START", "DRIVER_STOP",
     "SUPPLY_END", "CP_STATE", "FAULT", "RECOVERY"}

C11_SharedReadsUnderLock ==
    \A i \in 1..Len(out) :
       (out[i].to = Get(monitors, WEB_UI) /\ out[i].type \in C11_Broadcasts)
          => out[i].locked

(***************************************************************************)
(* C12: no message is written to a socket while the lock is held.          *)
(***************************************************************************)
C12_NoSendUnderLock == \A i \in 1..Len(out) : ~out[i].locked

(***************************************************************************)
(* C13: within a session the accumulated energy never decreases: every     *)
(* SUPPLY_UPDATE the metering handler takes for a charging point leaves    *)
(* kwh_delivered at least where it was.                                    *)
(***************************************************************************)
C13_MeteringStep ==
    /\ "CP1" \in DOMAIN charging_points
    /\ charging_points["CP1"].current_driver # None
    /\ \E s \in Sockets : pc[s] = "idle" /\ pc'[s] = "forward_update"

C13_EnergyNeverDecreases ==
    [][C13_MeteringStep =>
         charging_points'["CP1"].kwh_delivered >= charging_points["CP1"].kwh_delivered]_vars

(***************************************************************************)
(* C14: the amount is reconciled so that a peer reporting running totals   *)
(* and a peer reporting per-tick deltas end with the same stored amount    *)
(* for the same increments.  A peer reporting running totals always ends   *)
(* with energy * price, so the claim asks that a metering update with a    *)
(* non-negative increment, applied to a record whose amount is its energy  *)
(* times its price, leaves that relation in place whichever of the two     *)
(* conventions the reported amount follows.                                *)
(***************************************************************************)
C14_Settled(cp) == cp.amount_euro = cp.kwh_delivered * cp.price_per_kwh

C14_MeteringStep ==
    /\ "CP1" \in DOMAIN charging_points
    /\ charging_points["CP1"].current_driver # None
    /\ \E s \in Sockets : pc[s] = "idle" /\ pc'[s] = "forward_update"
    /\ charging_points'["CP1"].kwh_delivered >= charging_points["CP1"].kwh_delivered

C14_DeltasEndLikeTotals ==
    [][(C14_MeteringStep /\ C14_Settled(charging_points["CP1"]))
          => C14_Settled(charging_points'["CP1"])]_vars

(***************************************************************************)
(* C15: in a session whose energy needed is positive, CHARGING_COMPLETE is *)
(* sent exactly once.  With the monitor connected, a step sends it for a   *)
(* charging point in a session exactly when it is a metering update that   *)
(* brings the accumulated energy to the energy needed or beyond while the  *)
(* completion flag is unset; an unset flag means the energy has not yet    *)
(* reached the energy needed, so that update is the first such one; and    *)
(* the flag, once set, stays set as long as the session lasts, a closed    *)
(* connection and a later registration of the charging point included, so  *)
(* no later update of the session sends it again.                          *)
(***************************************************************************)
C15_InSession(cp_id) ==
    /\ cp_id \in DOMAIN charging_points
    /\ charging_points[cp_id].current_driver # None
    /\ charging_points[cp_id].kwh_needed > 0
    /\ WEB_UI \in DOMAIN monitors

C15_Continues(cp_id) ==
    /\ cp_id \in DOMAIN charging_points'
    /\ charging_points'[cp_id].current_driver = charging_points[cp_id].current_driver
    /\ charging_points'[cp_id].session_start = charging_points[cp_id].session_start

C15_Notifies(cp_id) ==
    \E i \in 1..Len(out') :
       out'[i].type = "CHARGING_COMPLETE" /\ out'[i].cp = cp_id

C15_Reaches(cp_id) ==
    /\ \E s \in Sockets : pc[s] = "idle" /\ pc'[s] = "forward_update"
                          /\ ctx'[s].cp = cp_id
    /\ charging_points'[cp_id].kwh_delivered >= charging_points[cp_id].kwh_needed
    /\ ~charging_points[cp_id].charging_complete

C15_CompleteOncePerSession ==
    [][\A cp_id \in CPs :
          C15_InSession(cp_id) =>
             /\ C15_Notifies(cp_id) <=> C15_Reaches(cp_id)
             /\ ~charging_points[cp_id].charging_complete =>
                    charging_points[cp_id].kwh_delivered < charging_points[cp_id].kwh_needed
             /\ (C15_Continues(cp_id) /\ charging_points[cp_id].charging_complete) =>
                    charging_points'[cp_id].charging_complete]_vars

\* The reconnected charging point meters past the energy needed of a session
\* whose completion was notified before: nothing is sent to the monitor.
C15_MeteredAfterComplete ==
    /\ pc["s3"] = "forward_update"
    /\ pc["s1"] = "closed"
    /\ charging_points["CP1"].current_driver = "D1"
    /\ charging_points["CP1"].charging_complete
    /\ charging_points["CP1"].kwh_needed > 0
    /\ charging_points["CP1"].kwh_delivered > charging_points["CP1"].kwh_needed
    /\ out = <<>>

(***************************************************************************)
(* The happy path.  The engine on s1 registers CP1; the driver on s2       *)
(* registers D1 and, once CP1 is in service, asks for HappyNeeds kWh; the  *)
(* engine, once it has been sent AUTHORIZE, reports one kWh per tick with  *)
(* its running amount while the next tick does not reach the energy        *)
(* needed, and at the tick that reaches it sends SUPPLY_END with its       *)
(* totals (_status_loop, "FINISH FIRST").  The monitor on s4 may register  *)
(* at any time.                                                            *)
(***************************************************************************)
HappyNeeds == {1, 2, 3}

Unbound(s) == pc[s] = "idle" /\ s \notin DOMAIN socket_to_entity

InService(cp_id) ==
    /\ cp_id \in DOMAIN charging_points
    /\ Get(entity_to_socket, cp_id) # None
    /\ pc[Get(entity_to_socket, cp_id)] = "idle"

Authorized(s, cp_id, driver_id) ==
    /\ pc[s] = "idle"
    /\ Get(socket_to_entity, s) = cp_id
    /\ cp_id \in DOMAIN charging_points
    /\ charging_points[cp_id].state = SUPPLYING
    /\ charging_points[cp_id].current_driver = driver_id
    /\ pc[Get(entity_to_socket, driver_id)] = "idle"
    /\ ends[<<cp_id, driver_id>>] = 0

EngineRegisters(s) ==
    /\ Unbound(s)
    /\ UNCHANGED <<ends, io>>
    /\ Dispatch(s, Register("CP", "CP1", "ok"))

DriverRegisters(s) ==
    /\ Unbound(s)
    /\ UNCHANGED <<ends, io>>
    /\ Dispatch(s, Register("DRIVER", "D1", None))

MonitorRegisters(s) ==
    /\ Unbound(s)
    /\ UNCHANGED <<ends, io>>
    /\ Dispatch(s, Register("MONITOR", WEB_UI, None))

DriverRequests(s) ==
    \E k \in HappyNeeds :
       /\ pc[s] = "idle"
       /\ Get(socket_to_entity, s) = "D1"
       /\ InService("CP1")
       /\ opened[<<"CP1", "D1">>] = 0
       /\ UNCHANGED <<ends, io>>
       /\ Dispatch(s, RequestCharge("D1", "CP1", k))

EngineMeters(s) ==
    /\ Authorized(s, "CP1", "D1")
    /\ charging_points["CP1"].kwh_delivered + 1 < charging_points["CP1"].kwh_needed
    /\ UNCHANGED <<ends, io>>
    /\ Dispatch(s, SupplyUpdate("CP1", 1,
                                (charging_points["CP1"].kwh_delivered + 1) * Price))

EngineEnds(s) ==
    /\ Authorized(s, "CP1", "D1")
    /\ charging_points["CP1"].kwh_delivered + 1 >= charging_points["CP1"].kwh_needed
    /\ ends' = [ends EXCEPT ![<<"CP1", "D1">>] = @ + 1]
    /\ UNCHANGED io
    /\ Dispatch(s, SupplyEnd("CP1", "D1", charging_points["CP1"].kwh_needed,
                             charging_points["CP1"].kwh_needed * Price))

NextHappy ==
    \/ EngineRegisters("s1")
    \/ DriverRegisters("s2")
    \/ MonitorRegisters("s4")
    \/ DriverRequests("s2")
    \/ EngineMeters("s1")
    \/ EngineEnds("s1")
    \/ \E s \in Sockets :
          \/ RegisterRecord(s)
          \/ AddLog(s)
          \/ SendFullState(s)
          \/ SendToCP(s)
          \/ ForwardUpdate(s)
          \/ FinalizeTicket(s)

SpecHappy == Init /\ [][NextHappy]_vars

(***************************************************************************)
(* C16: on the happy path the request is authorized (CP1 SUPPLYING for D1, *)
(* D1 CHARGING on CP1); the step that ends the finalize sends D1 one       *)
(* TICKET with the totals of the SUPPLY_END frame; and once SUPPLY_END is  *)
(* handled D1 is IDLE with no charging point, CP1 is ACTIVATED with no     *)
(* driver and zero counters, one TICKET has been sent to D1 and one        *)
(* history entry recorded.                                                 *)
(***************************************************************************)
C16_Pair == <<"CP1", "D1">>

C16_Ended == ends[C16_Pair] = 1 /\ pc["s1"] = "idle"

C16_Charging ==
    (opened[C16_Pair] = 1 /\ ends[C16_Pair] = 0) =>
       /\ charging_points["CP1"].state = SUPPLYING
       /\ charging_points["CP1"].current_driver = "D1"
       /\ drivers["D1"].status = "CHARGING"
       /\ drivers["D1"].current_cp = "CP1"

C16_Final ==
    C16_Ended =>
       /\ drivers["D1"].status = "IDLE"
       /\ drivers["D1"].current_cp = None
       /\ charging_points["CP1"].state = ACTIVATED
       /\ charging_points["CP1"].current_driver = None
       /\ charging_points["CP1"].kwh_delivered = 0
       /\ charging_points["CP1"].amount_euro = 0
       /\ tickets[C16_Pair] = 1
       /\ history[C16_Pair] = 1
       /\ opened[C16_Pair] = 1

C16_TicketStep ==
    (pc["s1"] = "ticket" /\ pc'["s1"] = "idle") =>
       /\ Cardinality({i \in 1..Len(out') : out'[i].type = "TICKET"}) = 1
       /\ \E i \in 1..Len(out') :
             /\ out'[i].type = "TICKET"
             /\ out'[i].to = entity_to_socket["D1"]
             /\ out'[i].cp = "CP1"
             /\ out'[i].kwh = ctx["s1"].kwh
             /\ out'[i].amount = ctx["s1"].amount
       /\ ctx["s1"].type = "SUPPLY_END"

C16_HappyPath == [](C16_Charging /\ C16_Final) /\ [][C16_TicketStep]_vars

\* The finalize of a session of two or more kWh has just sent its TICKET.
C16_TicketSent ==
    /\ C16_Ended
    /\ \E i \in 1..Len(out) : out[i].type = "TICKET" /\ out[i].kwh >= 2 /\ out[i].to = "s2"

(***************************************************************************)
(* C17: an accepted REQUEST_CHARGE initialises the session in the record   *)
(* and AUTHORIZE is sent to the driver and to the charging point.  The     *)
(* part tried here: when _send_to_cp has run for an accepted request       *)
(* without a failed send, AUTHORIZE has gone to the charging point.        *)
(***************************************************************************)
C17_SendStep(s) ==
    /\ pc[s] = "send_to_cp"
    /\ ctx[s].type = "REQUEST_CHARGE"
    /\ pc'[s] = "idle"

C17_AuthorizeReachesCP ==
    [][\A s \in Sockets :
          C17_SendStep(s) =>
             \E i \in 1..Len(out') :
                /\ out'[i].type = "AUTHORIZE"
                /\ out'[i].cp = ctx[s].cp
                /\ out'[i].to # s]_vars

(***************************************************************************)
(* C18: the lifecycle state of every charging-point record is always one   *)
(* of DISCONNECTED, ACTIVATED, SUPPLYING and OUT_OF_ORDER, whatever the    *)
(* fields of the frames received.                                          *)
(***************************************************************************)
C18_StateInDomain ==
    \A cp_id \in DOMAIN charging_points : charging_points[cp_id].state \in CP_STATES

(***************************************************************************)
(* C19: FAULT for a known charging point sets its state to OUT_OF_ORDER    *)
(* whatever it was; RECOVERY sets an OUT_OF_ORDER charging point ACTIVATED *)
(* and leaves the state of a SUPPLYING one alone.  Neither touches another *)
(* field of the record.                                                    *)
(***************************************************************************)
C19_Handles(s, type) ==
    /\ pc[s] = "idle"
    /\ pc'[s] = "add_log"
    /\ ctx'[s].type = type
    /\ ctx'[s].cp \in DOMAIN charging_points

C19_FaultRecovery ==
    [][\A s \in Sockets :
          /\ C19_Handles(s, "FAULT") =>
                charging_points'[ctx'[s].cp] =
                   [charging_points[ctx'[s].cp] EXCEPT !.state = OUT_OF_ORDER]
          /\ C19_Handles(s, "RECOVERY") =>
                LET old == charging_points[ctx'[s].cp]
                    new == charging_points'[ctx'[s].cp]
                IN /\ old.state = OUT_OF_ORDER => new = [old EXCEPT !.state = ACTIVATED]
                   /\ old.state = SUPPLYING => new = old]_vars

\* A RECOVERY has been handled for a charging point that is SUPPLYING.
C19_RecoveryWhileSupplying ==
    \E s \in Sockets :
       /\ pc[s] = "add_log"
       /\ ctx[s].type = "RECOVERY"
       /\ ctx[s].cp \in DOMAIN charging_points
       /\ charging_points[ctx[s].cp].state = SUPPLYING
       /\ charging_points[ctx[s].cp].current_driver # None

(***************************************************************************)
(* C20: when the verification of a charging point's credentials fails,     *)
(* Central answers DENY AUTH_FAILED and nothing else happens: no binding,  *)
(* no key, no record is created or changed, and the connection stays open  *)
(* with its thread back at reading frames.  A connection goes on to the    *)
(* registration of a charging point only with a verified REGISTER.         *)
(***************************************************************************)
C20_Denies(s) ==
    /\ pc[s] = "idle"
    /\ \E i \in 1..Len(out') :
          out'[i].type = "DENY" /\ out'[i].arg = "AUTH_FAILED" /\ out'[i].to = s

C20_RegistersCP(s) ==
    /\ pc[s] = "idle"
    /\ pc'[s] = "reg_record"

C20_AuthFailureChangesNothing ==
    [][\A s \in Sockets :
          /\ C20_Denies(s) =>
                /\ Len(out') = 1
                /\ pc' = pc
                /\ UNCHANGED <<charging_points, drivers, entity_to_socket,
                               socket_to_entity, socket_to_type, monitors,
                               active_connections, cp_encryption_keys, lock>>
          /\ C20_RegistersCP(s) =>
                /\ ctx'[s].arg = "ok"
                /\ Get(entity_to_socket', ctx'[s].id) = s
                /\ ctx'[s].id \in DOMAIN cp_encryption_keys']_vars

\* A charging point that was never registered has been denied on s1.
C20_Denied ==
    /\ out = <<Send("s1", "DENY", "CP1", None, 0, 0, "AUTH_FAILED", FALSE)>>
    /\ pc["s1"] = "idle"
    /\ "s1" \notin DOMAIN socket_to_entity
    /\ "CP1" \notin DOMAIN charging_points
    /\ "CP1" \notin DOMAIN cp_encryption_keys

(***************************************************************************)
(* The connection registry on its own.  Any connection may register, and   *)
(* register again under another id or kind: s1 as CP1, s2 as D1 or D2, s3  *)
(* as CP1, D1 or the monitor, s4 as the monitor.  Any connection may close *)
(* at any time between two frames.                                         *)
(***************************************************************************)
BindFrames ==
    [s \in Sockets |->
        CASE s = "s1" -> {Register("CP", "CP1", "ok")}
          [] s = "s2" -> {Register("DRIVER", d, None) : d \in Drivers}
          [] s = "s3" -> {Register("CP", "CP1", "ok"), Register("DRIVER", "D1", None),
                          Register("MONITOR", WEB_UI, None)}
          [] s = "s4" -> {Register("MONITOR", WEB_UI, None)}
          [] OTHER -> {}]

Registers(s) ==
    \E m \in BindFrames[s] :
       /\ pc[s] = "idle"
       /\ UNCHANGED <<ends, io>>
       /\ Dispatch(s, m)

NextBind ==
    \E s \in Sockets :
       \/ Registers(s)
       \/ RegisterRecord(s)
       \/ AddLog(s)
       \/ SendFullState(s)
       \/ Close(s)
       \/ Cleanup(s)

SpecBind == Init /\ [][NextBind]_vars

(***************************************************************************)
(* C21: an entity id is bound to at most one socket; the registration of   *)
(* an id on a socket makes that socket the id's binding, whatever socket   *)
(* held it before; and the cleanup of a socket removes no binding held by  *)
(* another socket, for charging points, drivers and the monitor.           *)
(***************************************************************************)
C21_RegistersEntity(s) ==
    /\ pc[s] = "idle"
    /\ pc'[s] \in {"reg_record", "add_log"}
    /\ ctx'[s].type = "REGISTER"
    /\ ctx'[s].kind \in {"CP", "DRIVER"}

C21_RegistersMonitor(s) ==
    /\ pc[s] = "idle"
    /\ pc'[s] = "full_state"
    /\ ctx'[s].type = "REGISTER"
    /\ ctx'[s].kind = "MONITOR"

C21_CleansUp(s) == pc[s] = "closing" /\ pc'[s] = "closed"

C21_NewestBindingStays ==
    [][\A s \in Sockets :
          /\ C21_RegistersEntity(s) => Get(entity_to_socket', ctx'[s].id) = s
          /\ C21_RegistersMonitor(s) => Get(monitors', WEB_UI) = s
          /\ C21_CleansUp(s) =>
                /\ \A e \in DOMAIN entity_to_socket :
                      entity_to_socket[e] # s =>
                         Get(entity_to_socket', e) = entity_to_socket[e]
                /\ \A e \in DOMAIN monitors :
                      monitors[e] # s => Get(monitors', e) = monitors[e]]_vars

\* s1, superseded by s3 as the connection of CP1, has been cleaned up after
\* the registration on s3 was complete, and s3 still holds the binding.
C21_StaleCleaned ==
    /\ pc["s1"] = "closed"
    /\ pc["s3"] = "idle"
    /\ Get(entity_to_socket, "CP1") = "s3"
    /\ Get(socket_to_entity, "s3") = "CP1"
    /\ charging_points["CP1"].state = DISCONNECTED

(***************************************************************************)
(* C22: the binding is invertible: whenever entity_to_socket sends an      *)
(* entity to a socket, socket_to_entity sends that socket to the entity.   *)
(***************************************************************************)
C22_Invertible ==
    \A e \in DOMAIN entity_to_socket :
       Get(socket_to_entity, entity_to_socket[e]) = e

(***************************************************************************)
(* C23: once the cleanup of a closed connection has run, none of           *)
(* entity_to_socket, socket_to_entity, socket_to_type, monitors and        *)
(* active_connections refers to its socket.                                *)
(***************************************************************************)
C23_Refers(s) ==
    \/ \E e \in DOMAIN entity_to_socket : entity_to_socket[e] = s
    \/ s \in DOMAIN socket_to_entity
    \/ s \in DOMAIN socket_to_type
    \/ \E e \in DOMAIN monitors : monitors[e] = s
    \/ s \in active_connections

C23_CleanedUp == \A s \in Sockets : pc[s] = "closed" => ~C23_Refers(s)

(***************************************************************************)
(* The byte stream of a connection and _handle_client's loop over it.      *)
(* shared/protocol.py (Protocol.encode, decode, parse_message) and         *)
(* shared/encryption.py (EncryptionManager) are not among the sources:     *)
(* Encode, Decode, Plaintext and Decrypt follow their specification        *)
(* (sections 3, 4.1 and 4.2).  A frame is a start marker, the bytes of the *)
(* message, the end marker and one trailer byte.  The bytes of a message   *)
(* are kept abstract: its first and its second half.  A message on the     *)
(* wire is the message its sender built (msg), the number of fields it     *)
(* carries (len), the key it was encrypted with or None (key), and whether *)
(* its numeric fields read as numbers (numeric).                           *)
(***************************************************************************)
MaxFrames == 2      \* frames the peers send in one run of SpecWire
MaxStream == 3      \* frames in the stream of one run of SpecFrame

Raw(m, n, key, numeric) == [msg |-> m, len |-> n, key |-> key, numeric |-> numeric]
NoRaw == Raw(NoMsg, 0, None, TRUE)
Byte(b, of) == [b |-> b, of |-> of]

Encode(raw) ==
    <<Byte("STX", NoRaw), Byte("1", raw), Byte("2", raw),
      Byte("ETX", NoRaw), Byte("LRC", raw)>>

\* bytes.find: the position of the first such byte (from 1), 0 if there is none
Find(buf, b) ==
    IF \E i \in 1..Len(buf) : buf[i].b = b
    THEN CHOOSE i \in 1..Len(buf) :
            buf[i].b = b /\ \A j \in 1..(i - 1) : buf[j].b # b
    ELSE 0

\* Protocol.decode: a full frame at the head of the buffer, or not valid
Decode(buf) ==
    LET etx == Find(buf, "ETX")
    IN IF /\ etx = 4
          /\ Len(buf) > etx
          /\ buf[1].b = "STX" /\ buf[2].b = "1" /\ buf[3].b = "2"
          /\ buf[2].of = buf[3].of
          /\ buf[5].b = "LRC" /\ buf[5].of = buf[2].of
       THEN [msg |-> buf[2].of, valid |-> TRUE]
       ELSE [msg |-> NoRaw, valid |-> FALSE]

\* buffer = buffer[etx + 2:] if etx != -1 else b""
SlideShort(buf) ==
    LET etx == Find(buf, "ETX")
    IN IF etx # 0 THEN SubSeq(buf, etx + 1, Len(buf)) ELSE <<>>

Slide(buf) ==
    LET etx == Find(buf, "ETX")
    IN IF etx # 0 THEN SubSeq(buf, etx + 2, Len(buf)) ELSE <<>>

\* Protocol.parse_message splits the text it is given into fields; a
\* ciphertext is one token without a field separator, so it parses as a
\* message of one field, which is its type tag.
Ciphertext == Msg("gAAAAA", None, None, None, None, 0, 0, None)
Plaintext(raw) == IF raw.key = None THEN raw ELSE Raw(Ciphertext, 1, None, TRUE)
Malformed(raw) == Plaintext(raw).msg.type = ""

\* EncryptionManager.decrypt: fails on a text that is no ciphertext of the key
Decrypts(raw, key) == raw.key = key
Decrypt(raw) == Raw(raw.msg, raw.len, None, raw.numeric)

\* _decrypt_message_from_cp: the text, or NoRaw for None
DecryptMessageFromCP(cp_id, raw) ==
    LET key == Get(cp_encryption_keys, cp_id)
    IN IF key = None THEN raw
       ELSE IF Decrypts(raw, key) THEN Decrypt(raw) ELSE NoRaw

\* _handle_client, steps 1 and 2: the fields handed to _process_fields
Fields(s, raw) ==
    IF ~Malformed(raw) THEN [ok |-> TRUE, f |-> Plaintext(raw)]
    ELSE LET cp_id == Get(socket_to_entity, s)
         IN IF cp_id # None /\ Get(socket_to_type, s) = "CP"
            THEN LET dec == DecryptMessageFromCP(cp_id, raw)
                 IN IF dec = NoRaw \/ Malformed(dec)
                    THEN [ok |-> FALSE, f |-> NoRaw]
                    ELSE [ok |-> TRUE, f |-> Plaintext(dec)]
            ELSE [ok |-> FALSE, f |-> NoRaw]

HandledTypes ==
    {"REGISTER", "HEARTBEAT", "REQUEST_CHARGE", "QUERY_AVAILABLE_CPS",
     "SUPPLY_UPDATE", "SUPPLY_END", "END_CHARGE", "FINISH_CHARGE", "FAULT",
     "RECOVERY", "LOG", "WEATHER_ALERT"}

\* the `if len(fields) < n: return` at the head of each handler
MinFields(type) ==
    CASE type \in {"REGISTER", "HEARTBEAT", "END_CHARGE", "WEATHER_ALERT"} -> 3
      [] type \in {"REQUEST_CHARGE", "SUPPLY_UPDATE"} -> 4
      [] type = "SUPPLY_END" -> 5
      [] type \in {"QUERY_AVAILABLE_CPS", "FAULT", "RECOVERY"} -> 2
      [] OTHER -> 0

TooShortNever(f) == FALSE
TooShort(f) == f.len < MinFields(f.msg.type)

\* the two handlers that call add_log before they return
LogsShort(f) == TooShort(f) /\ f.msg.type \in {"REQUEST_CHARGE", "SUPPLY_UPDATE"}

\* ["END_CHARGE", fields[1], fields[2]] of the FINISH_CHARGE alias
IndexRaises(f) == f.msg.type = "FINISH_CHARGE" /\ f.len < 3

\* float(fields[k]) of a handler that has accepted the length
FloatRaisesNever(f) == FALSE
FloatRaises(f) ==
    /\ ~f.numeric
    /\ f.msg.type \in {"REQUEST_CHARGE", "SUPPLY_UPDATE", "SUPPLY_END"}

\* a CP REGISTER without fields[6], fields[7] is verified with username or
\* password None; the registry answers 400 to missing credentials
Credentials(f) ==
    IF f.msg.type = "REGISTER" /\ f.msg.kind = "CP" /\ f.len < 8
    THEN [f.msg EXCEPT !.arg = "denied"]
    ELSE f.msg

Drop(s) ==
    /\ Done(s)
    /\ out' = <<>>
    /\ UNCHANGED <<charging_points, drivers, registry, cp_encryption_keys, lock,
                   clock, counts>>

\* _process_fields in the try block of _handle_client
ProcessFields(s, f) ==
    IF f.msg.type \notin HandledTypes \/ IndexRaises(f) THEN Drop(s)
    ELSE IF LogsShort(f) THEN AddLogOf(s, Log)
    ELSE IF TooShort(f) THEN Drop(s)
    ELSE IF FloatRaises(f) THEN Drop(s)
    ELSE Dispatch(s, Credentials(f))

Returned(f) ==
    IF IndexRaises(f) THEN "raised"
    ELSE IF f.msg.type \in HandledTypes /\ ~TooShort(f) /\ FloatRaises(f) THEN "raised"
    ELSE "returned"

Handled(f) == f.msg.type \in HandledTypes /\ ~TooShort(f) /\ Returned(f) = "returned"

\* one turn of `while buffer:`: decode, slide, parse, process
Take(s) ==
    /\ pc[s] = "idle"
    /\ Decode(buffer[s]).valid
    /\ LET raw == Decode(buffer[s]).msg
           got == Fields(s, raw)
       IN /\ buffer' = [buffer EXCEPT ![s] = Slide(@)]
          /\ handed' = [handed EXCEPT ![s] =
                Append(@, [frame |-> raw,
                           did |-> IF got.ok THEN Returned(got.f) ELSE "dropped"])]
          /\ ends' = IF got.ok /\ Handled(got.f) /\ IsEnd(got.f.msg)
                     THEN [ends EXCEPT ![<<got.f.msg.cp, got.f.msg.driver>>] = @ + 1]
                     ELSE ends
          /\ IF got.ok THEN ProcessFields(s, got.f) ELSE Drop(s)
    /\ UNCHANGED <<wire, engine, mirror>>

\* data = client_socket.recv(4096); buffer += data, with k bytes read
Recv(s, k) ==
    /\ pc[s] = "idle"
    /\ ~Decode(buffer[s]).valid
    /\ k \in 1..Len(wire[s])
    /\ buffer' = [buffer EXCEPT ![s] = @ \o SubSeq(wire[s], 1, k)]
    /\ wire' = [wire EXCEPT ![s] = SubSeq(@, k + 1, Len(@))]
    /\ out' = <<>>
    /\ UNCHANGED <<charging_points, drivers, registry, cp_encryption_keys, lock,
                   pc, ctx, clock, counts, ends, handed, engine, mirror>>

(***************************************************************************)
(* SpecWire: the connections of InitEngine (CP1 on s1, free or in a        *)
(* session with D1; D1 on s2; the monitor on s4) and a new connection s3,  *)
(* with the peers sending well-formed, short, non-numeric, unknown,        *)
(* empty and encrypted messages, one frame at a time.                      *)
(***************************************************************************)
Clear(m) == Raw(m, 8, None, TRUE)
Short(m) == Raw(m, MinFields(m.type) - 1, None, TRUE)
NotNumeric(m) == Raw(m, 8, None, FALSE)
Encrypted(m, key) == Raw(m, 8, key, TRUE)
Unknown == Msg("PING", None, None, None, None, 0, 0, None)
Empty == Msg("", None, None, None, None, 0, 0, None)

CPMessages(cp) ==
    {Heartbeat(cp, OUT_OF_ORDER), SupplyUpdate(cp, 1, Price),
     SupplyEnd(cp, "D1", 1, Price)}

DriverMessages(d) ==
    {RequestCharge(d, "CP1", 2), EndCharge(d, "CP1"), FinishCharge(d, "CP1"),
     QueryAvailable(d)}

WireFrames ==
    [s \in Sockets |->
        CASE s = "s1" ->
                {Clear(m) : m \in CPMessages("CP1")}
                \cup {Short(m) : m \in CPMessages("CP1")
                                        \cup {Fault("CP1"), Recovery("CP1")}}
                \cup {NotNumeric(SupplyUpdate("CP1", 1, Price)),
                      NotNumeric(SupplyEnd("CP1", "D1", 1, Price))}
                \cup {Encrypted(m, "key") : m \in CPMessages("CP1")}
                \cup {Encrypted(Heartbeat("CP1", OUT_OF_ORDER), "other")}
                \cup {Clear(Unknown), Clear(Empty)}
          [] s = "s2" ->
                {Clear(m) : m \in DriverMessages("D1") \ {EndCharge("D1", "CP1")}}
                \cup {Short(m) : m \in DriverMessages("D1") \ {FinishCharge("D1", "CP1")}}
                \cup {NotNumeric(RequestCharge("D1", "CP1", 2)), Clear(Unknown),
                      Clear(Empty), Raw(FinishCharge("D1", "CP1"), 2, None, TRUE)}
          [] s = "s3" ->
                {Raw(Register("CP", "CP2", "ok"), n, None, TRUE) : n \in {2, 3, 7, 8}}
                \cup {Short(Register("DRIVER", "D2", None)),
                      Raw(Log, 1, None, TRUE),
                      Short(WeatherAlert("CP1", "ALERT_COLD"))}
          [] OTHER -> {}]

RECURSIVE Frames_In(_)
Frames_In(buf) ==
    IF buf = <<>> THEN 0
    ELSE (IF Head(buf).b = "ETX" THEN 1 ELSE 0) + Frames_In(Tail(buf))

FramesSent ==
    LET Of(s) == Len(handed[s]) + Frames_In(buffer[s] \o wire[s])
    IN Of("s1") + Of("s2") + Of("s3") + Of("s4")

\* the peer of s sends one frame, once Central has taken its last one
PeerSends(s) ==
    \E raw \in WireFrames[s] :
       /\ pc[s] \notin {"closing", "closed"}
       /\ wire[s] = <<>> /\ buffer[s] = <<>>
       /\ FramesSent < MaxFrames
       /\ wire' = [wire EXCEPT ![s] = Encode(raw)]
       /\ UNCHANGED <<charging_points, drivers, registry, cp_encryption_keys, lock,
                      pc, ctx, clock, out, counts, ends, buffer, handed,
                      engine, mirror>>

RecvFrame(s) == Recv(s, Len(wire[s]))

NextWire ==
    \E s \in Sockets :
       \/ PeerSends(s)
       \/ RecvFrame(s)
       \/ Take(s)
       \/ RegisterRecord(s)
       \/ AddLog(s)
       \/ SendFullState(s)
       \/ SendToCP(s)
       \/ ForwardUpdate(s)
       \/ FinalizeReset(s)
       \/ FinalizeTicket(s)

SpecWire == InitEngine /\ [][NextWire]_vars

(***************************************************************************)
(* SpecFrame: CP1's engine has sent a sequence of heartbeats and faults,   *)
(* encoded and concatenated; the socket delivers the bytes in reads of any *)
(* length.                                                                 *)
(***************************************************************************)
StreamMessages == {Clear(Heartbeat("CP1", st)) : st \in {ACTIVATED, OUT_OF_ORDER}}

RECURSIVE Concat(_)
Concat(raws) == IF raws = <<>> THEN <<>> ELSE Encode(Head(raws)) \o Concat(Tail(raws))

Streams == UNION {[1..n -> StreamMessages] : n \in 0..MaxStream}

InitFrame ==
    /\ charging_points = [c \in {"CP1"} |-> CPRecord(ACTIVATED, None, 0, 0, NoStart, FALSE, 0)]
    /\ drivers = EmptyDict
    /\ entity_to_socket = [e \in {"CP1"} |-> "s1"]
    /\ socket_to_entity = [s \in {"s1"} |-> "CP1"]
    /\ socket_to_type = [s \in {"s1"} |-> "CP"]
    /\ monitors = EmptyDict
    /\ active_connections = Sockets
    /\ cp_encryption_keys = [c \in {"CP1"} |-> KeyOf(c)]
    /\ lock = None
    /\ pc = [s \in Sockets |-> "idle"]
    /\ ctx = [s \in Sockets |-> NoMsg]
    /\ clock = 1
    /\ out = <<>>
    /\ tickets = PairZero
    /\ history = PairZero
    /\ opened = PairZero
    /\ ends = PairZero
    /\ \E raws \in Streams : wire = [s \in Sockets |-> IF s = "s1" THEN Concat(raws) ELSE <<>>]
    /\ buffer = [s \in Sockets |-> <<>>]
    /\ handed = [s \in Sockets |-> <<>>]
    /\ engine = NoEngine
    /\ mirror = EmptyDict

RecvChunk(s) == \E k \in 1..Len(wire[s]) : Recv(s, k)

NextFrame == RecvChunk("s1") \/ Take("s1")

SpecFrame == InitFrame /\ [][NextFrame]_vars

(***************************************************************************)
(* C24: a frame that cannot be interpreted or whose handler fails (a type  *)
(* without a handler, an empty or wrongly encrypted text, a non-numeric    *)
(* field, the FINISH_CHARGE alias without its fields) changes no           *)
(* charging-point record, no driver record and no binding; the thread is   *)
(* back at its loop with the connection open and the rest of its buffer    *)
(* kept.                                                                   *)
(***************************************************************************)
C24_Fails(raw) ==
    \/ raw.key = None /\ raw.msg.type \in {"PING", ""}
    \/ raw.key = "other"
    \/ /\ raw.key = None /\ ~raw.numeric /\ raw.len = 8
       /\ raw.msg.type \in {"REQUEST_CHARGE", "SUPPLY_UPDATE", "SUPPLY_END"}
    \/ raw.key = None /\ raw.msg.type = "FINISH_CHARGE" /\ raw.len = 2

C24_Took(s) == Len(handed'[s]) = Len(handed[s]) + 1

C24_FailureIsLocal ==
    [][\A s \in Sockets :
          (C24_Took(s) /\ C24_Fails(handed'[s][Len(handed'[s])].frame)) =>
             /\ UNCHANGED <<charging_points, drivers, entity_to_socket,
                            socket_to_entity, socket_to_type, monitors,
                            active_connections>>
             /\ pc'[s] = "idle"
             /\ buffer[s] = Encode(handed'[s][Len(handed'[s])].frame) \o buffer'[s]]_vars

\* a heartbeat handled on the connection that has just sent a non-numeric
\* SUPPLY_UPDATE
C24_NextFrameHandled ==
    /\ Len(handed["s1"]) = 2
    /\ handed["s1"][1].frame = NotNumeric(SupplyUpdate("CP1", 1, Price))
    /\ handed["s1"][1].did = "raised"
    /\ handed["s1"][2].frame = Clear(Heartbeat("CP1", OUT_OF_ORDER))
    /\ charging_points["CP1"].state = OUT_OF_ORDER
    /\ charging_points["CP1"].kwh_delivered = 0
    /\ pc["s1"] = "idle"

(***************************************************************************)
(* C25: a message with fewer fields than its handler reads changes no      *)
(* charging-point record, no driver record and no binding, and the thread  *)
(* is back at its loop with the connection open.  The fields a handler     *)
(* reads include fields[1], fields[2] of the FINISH_CHARGE alias and the   *)
(* location, price and credentials (fields[3] to fields[7]) of a CP        *)
(* REGISTER.                                                               *)
(***************************************************************************)
C25_Reads(m) ==
    CASE m.type = "REGISTER" /\ m.kind = "CP" -> 8
      [] m.type = "SUPPLY_END" -> 5
      [] m.type \in {"REQUEST_CHARGE", "SUPPLY_UPDATE"} -> 4
      [] m.type \in {"REGISTER", "HEARTBEAT", "END_CHARGE", "FINISH_CHARGE",
                     "WEATHER_ALERT", "LOG"} -> 3
      [] m.type \in {"QUERY_AVAILABLE_CPS", "FAULT", "RECOVERY"} -> 2
      [] OTHER -> 0

C25_Short(raw) == raw.key = None /\ raw.len < C25_Reads(raw.msg)

C25_ShortIsRejected ==
    [][\A s \in Sockets :
          (Len(handed'[s]) = Len(handed[s]) + 1
             /\ C25_Short(handed'[s][Len(handed'[s])].frame)) =>
             /\ UNCHANGED <<charging_points, drivers, entity_to_socket,
                            socket_to_entity, socket_to_type, monitors,
                            active_connections, cp_encryption_keys>>
             /\ pc'[s] = "idle"]_vars

\* a CP REGISTER without credentials was denied and the same connection
\* has registered CP2 with a complete REGISTER afterwards
C25_RegisteredAfterShort ==
    /\ Len(handed["s3"]) = 2
    /\ handed["s3"][1].frame = Raw(Register("CP", "CP2", "ok"), 7, None, TRUE)
    /\ handed["s3"][2].frame = Raw(Register("CP", "CP2", "ok"), 8, None, TRUE)
    /\ "CP2" \in DOMAIN charging_points
    /\ Get(socket_to_entity, "s3") = "CP2"

(***************************************************************************)
(* C27: a charging point that holds the key of its registration and sends  *)
(* HEARTBEAT, SUPPLY_UPDATE or SUPPLY_END encrypted with it has the        *)
(* message handled as that type: the heartbeat sets the state of a record  *)
(* that is not SUPPLYING, the update adds its increment to the session,    *)
(* the end closes the session.                                             *)
(***************************************************************************)
C27_Keyed(s, raw) ==
    /\ Get(socket_to_type, s) = "CP"
    /\ raw.key # None
    /\ raw.key = Get(cp_encryption_keys, Get(socket_to_entity, s))
    /\ raw.msg.cp = Get(socket_to_entity, s)
    /\ raw.len = 8 /\ raw.numeric

C27_HandledAs(m) ==
    LET cp == charging_points[m.cp]
        after == charging_points'[m.cp]
    IN /\ (m.type = "HEARTBEAT" /\ cp.state # SUPPLYING) => after.state = m.arg
       /\ (m.type = "SUPPLY_UPDATE" /\ cp.state = SUPPLYING /\ cp.current_driver # None)
             => after.kwh_delivered = cp.kwh_delivered + m.kwh
       /\ (m.type = "SUPPLY_END" /\ cp.current_driver = m.driver)
             => after.current_driver = None

C27_EncryptedIsHandled ==
    [][\A s \in Sockets :
          (Len(handed'[s]) = Len(handed[s]) + 1
             /\ C27_Keyed(s, handed'[s][Len(handed'[s])].frame)) =>
             C27_HandledAs(handed'[s][Len(handed'[s])].frame.msg)]_vars

(***************************************************************************)
(* C26: the messages of a stream reach the handlers each once and in the   *)
(* order sent, whatever the lengths of the reads.  The stream of a         *)
(* connection is what its loop has taken so far followed by the messages   *)
(* whose bytes are still in the buffer or in flight: no step changes it,   *)
(* and when no byte is in flight and no frame decodes, the buffer is       *)
(* empty (a partial frame is never dropped and no byte is left over).      *)
(***************************************************************************)
RECURSIVE C26_Messages(_)
C26_Messages(bytes) ==
    IF bytes = <<>> THEN <<>>
    ELSE (IF Head(bytes).b = "1" THEN <<Head(bytes).of>> ELSE <<>>)
         \o C26_Messages(Tail(bytes))

C26_Stream ==
    [i \in 1..Len(handed["s1"]) |-> handed["s1"][i].frame]
    \o C26_Messages(buffer["s1"] \o wire["s1"])

C26_NothingLeft ==
    (wire["s1"] = <<>> /\ ~Decode(buffer["s1"]).valid) => buffer["s1"] = <<>>

C26_AllReturned ==
    \A i \in 1..Len(handed["s1"]) : handed["s1"][i].did = "returned"

C26_RoundTrip ==
    /\ [](C26_NothingLeft /\ C26_AllReturned)
    /\ [][C26_Stream' = C26_Stream]_vars

\* the second frame of three is held in the buffer up to its end marker,
\* its trailer byte still in flight, the first frame handed
C26_SplitBeforeTrailer ==
    /\ Len(handed["s1"]) = 1
    /\ Len(buffer["s1"]) = 4
    /\ buffer["s1"][4].b = "ETX"
    /\ Len(wire["s1"]) = 6
    /\ wire["s1"][1].b = "LRC"
    /\ buffer["s1"][2].of # handed["s1"][1].frame

(***************************************************************************)
(* The charging-point engine (EVCPEngine), the peer of Central.  Two       *)
(* variants are in the sources: charging_point/ev_cp_engine.py and         *)
(* electric_vehicle1/charging_point/ev_cp_engine.py.  The engine runs a    *)
(* main thread (run) and the worker loops connect_to_central starts:       *)
(* _listen_central_loop, _status_loop and _display_loop.  Central and the  *)
(* network are the environment: Central accepts registrations or not       *)
(* (central), the engine's socket is alive or was lost without the engine  *)
(* having noticed (link).  Energy is counted in units of which a session   *)
(* needs a multiple of TicksToFull, so that the increment of one tick,     *)
(* kwh_needed / TOTAL_SECONDS * SUPPLY_UPDATE_INTERVAL, is whole.          *)
(***************************************************************************)
MaxConnects == 3    \* successful connects counted (the counter saturates)
TicksToFull == 2    \* ticks of the status loop that deliver a full charge

Variants == {"charging_point", "electric_vehicle1"}
NoSession == [kwh_needed |-> 0, kwh_delivered |-> 0, start |-> NoStart]
Session(needed) == [kwh_needed |-> needed, kwh_delivered |-> 0, start |-> 1]

\* a frame of Central as the listen loop sees it: fields[0], fields[1] and
\* float(fields[3])
Frame(type, driver_id, kwh_needed) ==
    [type |-> type, driver |-> driver_id, kwh |-> kwh_needed]
NoFrame == Frame(None, None, 0)

\* EVCPEngine.__init__
NewEngine(v) ==
    [variant |-> v, running |-> TRUE, connected |-> FALSE, central_socket |-> None,
     threads_started |-> FALSE, listen |-> 0, status |-> 0, display |-> 0,
     state |-> ACTIVATED, current_driver |-> None, current_session |-> NoSession,
     charging_complete |-> FALSE,
     listening |-> None,   \* the socket _listen_central_loop is blocked on
     at |-> "sleep",       \* where _status_loop stands
     sent |-> <<>>,        \* what the last step sent to Central
     got |-> NoFrame,      \* the frame _listen_central_loop handled last
     ended |-> 0,          \* SUPPLY_END sent for the current session
     connects |-> 0,       \* successful connects so far
     link |-> None,        \* the state of central_socket's connection
     central |-> "down"]   \* whether Central accepts registrations

central_vars ==
    <<charging_points, drivers, entity_to_socket, socket_to_entity, socket_to_type,
      monitors, active_connections, cp_encryption_keys, lock, pc, ctx, clock, out,
      tickets, history, opened, ends, wire, buffer, handed, mirror>>

InitPeer ==
    /\ charging_points = EmptyDict
    /\ drivers = EmptyDict
    /\ entity_to_socket = EmptyDict
    /\ socket_to_entity = EmptyDict
    /\ socket_to_type = EmptyDict
    /\ monitors = EmptyDict
    /\ active_connections = Sockets
    /\ cp_encryption_keys = EmptyDict
    /\ lock = None
    /\ pc = [s \in Sockets |-> "idle"]
    /\ ctx = [s \in Sockets |-> NoMsg]
    /\ clock = 1
    /\ out = <<>>
    /\ tickets = PairZero
    /\ history = PairZero
    /\ opened = PairZero
    /\ ends = PairZero
    /\ wire = [s \in Sockets |-> <<>>]
    /\ buffer = [s \in Sockets |-> <<>>]
    /\ handed = [s \in Sockets |-> <<>>]
    /\ mirror = EmptyDict
    /\ \E v \in Variants : engine = NewEngine(v)

\* _close_central_socket
CloseCentralSocketResets(e) ==
    [e EXCEPT !.central_socket = None, !.connected = FALSE, !.link = None,
              !.state = ACTIVATED, !.current_driver = None,
              !.current_session = NoSession]
CloseCentralSocket(e) ==
    [e EXCEPT !.central_socket = None, !.connected = FALSE, !.link = None]

\* `if not self._threads_started:` in connect_to_central
StartsThreadsAlways(e) == TRUE
StartsThreads(e) == ~e.threads_started

\* connect_to_central with ACKNOWLEDGE|<id>|OK received
Connected(e) ==
    LET c == [e EXCEPT !.central_socket = "open", !.connected = TRUE,
                       !.link = "alive",
                       !.listening = IF @ = "current" THEN "stale" ELSE @,
                       !.connects = IF @ < MaxConnects THEN @ + 1 ELSE @,
                       !.sent = <<"REGISTER">>]
    IN IF StartsThreads(e)
       THEN [c EXCEPT !.threads_started = TRUE, !.listen = @ + 1,
                      !.status = @ + 1, !.display = @ + 1]
       ELSE c

\* run: one turn of the main loop while not connected
Run ==
    /\ engine.running /\ ~engine.connected
    /\ engine' = IF engine.central = "up" THEN Connected(engine)
                 ELSE [engine EXCEPT !.sent = <<>>]
    /\ UNCHANGED central_vars

\* _listen_central_loop: the loop reaches recv on the current socket
ListenWait ==
    /\ engine.listen > 0 /\ engine.listening = None
    /\ engine.connected /\ engine.central_socket # None
    /\ engine' = [engine EXCEPT !.listening = "current", !.sent = <<>>,
                                !.got = NoFrame]
    /\ UNCHANGED central_vars

\* an engine that starts a session on every AUTHORIZE, against which the
\* test of the state is tried
HandleAuthorizeAlways(e, driver_id, kwh_needed) ==
    [e EXCEPT !.state = SUPPLYING, !.current_driver = driver_id,
              !.current_session = Session(kwh_needed),
              !.charging_complete = FALSE, !.ended = 0]

\* _handle_authorize
HandleAuthorize(e, driver_id, kwh_needed) ==
    IF e.state # ACTIVATED THEN e
    ELSE [e EXCEPT !.state = SUPPLYING, !.current_driver = driver_id,
                   !.current_session = Session(kwh_needed),
                   !.charging_complete = FALSE, !.ended = 0]

\* the reset at the end of a session (both in _handle_end_supply and in
\* _status_loop)
ResetSession(e) ==
    [e EXCEPT !.state = ACTIVATED, !.current_driver = None,
              !.current_session = NoSession, !.charging_complete = FALSE]

\* _handle_end_supply: SUPPLY_END is sent if connected, then the reset
HandleEndSupply(e) ==
    IF e.current_session = NoSession THEN e
    ELSE IF e.central_socket # None /\ e.connected
         THEN IF e.link = "alive"
              THEN ResetSession([e EXCEPT !.sent = <<"SUPPLY_END">>,
                                          !.ended = IF @ < 2 THEN @ + 1 ELSE @])
              ELSE ResetSession(CloseCentralSocket(e))
         ELSE ResetSession(e)

\* _handle_stop_supply and _handle_resume_supply (charging_point/
\* ev_cp_engine.py only: the other engine has no branch for these types)
HandleStopSupply(e) ==
    IF e.variant # "charging_point" THEN e
    ELSE IF e.state = SUPPLYING THEN [e EXCEPT !.charging_complete = TRUE]
    ELSE [e EXCEPT !.state = OUT_OF_ORDER]

HandleResumeSupply(e) ==
    IF e.variant # "charging_point" THEN e
    ELSE [e EXCEPT !.state = IF @ # SUPPLYING THEN ACTIVATED ELSE @,
                   !.charging_complete = FALSE]

\* the frames Central sends to an engine
CentralFrames ==
    {Frame("AUTHORIZE", d, k) : d \in Drivers, k \in {TicksToFull, 2 * TicksToFull}}
    \cup {Frame(t, None, 0) : t \in {"END_SUPPLY", "STOP_SUPPLY", "RESUME_SUPPLY"}}

\* a frame of Central read and handled by _listen_central_loop
ListenMessage ==
    /\ engine.listening = "current" /\ engine.link = "alive"
    /\ \E m \in CentralFrames :
          LET e == [engine EXCEPT !.listening = None, !.sent = <<>>, !.got = m]
          IN engine' = CASE m.type = "AUTHORIZE" -> HandleAuthorize(e, m.driver, m.kwh)
                         [] m.type = "END_SUPPLY" -> HandleEndSupply(e)
                         [] m.type = "STOP_SUPPLY" -> HandleStopSupply(e)
                         [] OTHER -> HandleResumeSupply(e)
    /\ UNCHANGED central_vars

\* recv returns nothing or raises: the socket was lost, or was closed by
\* another thread of the engine; the loop calls _close_central_socket
ListenFail ==
    /\ engine.listening # None
    /\ ~(engine.listening = "current" /\ engine.link = "alive")
    /\ engine' = CloseCentralSocket([engine EXCEPT !.listening = None, !.sent = <<>>,
                                                   !.got = NoFrame])
    /\ UNCHANGED central_vars

\* _status_loop after its sleep: the heartbeat
TickHeartbeat ==
    /\ engine.status > 0 /\ engine.at = "sleep"
    /\ engine.connected /\ engine.central_socket # None
    /\ engine' = IF engine.link = "alive"
                 THEN [engine EXCEPT !.at = "metering", !.sent = <<"HEARTBEAT">>]
                 ELSE [engine EXCEPT !.at = "except", !.sent = <<>>]
    /\ UNCHANGED central_vars

\* kwh_inc of one tick, capped at what remains
Increment(s) ==
    LET kwh_inc == s.kwh_needed \div TicksToFull
        remaining == s.kwh_needed - s.kwh_delivered
    IN IF kwh_inc > remaining THEN remaining ELSE kwh_inc

\* _status_loop, the block under the engine's lock.  lost: the connection
\* is lost between the two sends of the block.
Metered(e, lost) ==
    LET s == e.current_session
        t == [s EXCEPT !.kwh_delivered = @ + Increment(s)]
        m == [e EXCEPT !.current_session = t]
    IN IF e.variant = "electric_vehicle1"
       \* TOTAL_SECONDS is an attribute of the class, not a name the method
       \* can read: NameError
       THEN [e EXCEPT !.at = "except", !.sent = <<>>]
       ELSE IF e.link # "alive"
       THEN [m EXCEPT !.at = "except", !.sent = <<>>]
       ELSE IF t.kwh_delivered < t.kwh_needed
       THEN [m EXCEPT !.at = "sleep", !.sent = <<"SUPPLY_UPDATE">>]
       ELSE IF lost
       THEN [m EXCEPT !.at = "except", !.sent = <<"SUPPLY_UPDATE">>, !.link = "dead"]
       ELSE ResetSession([m EXCEPT !.at = "sleep",
                                   !.sent = <<"SUPPLY_UPDATE", "SUPPLY_END">>,
                                   !.ended = IF @ < 2 THEN @ + 1 ELSE @])

TickMeter ==
    /\ engine.at = "metering"
    /\ \E lost \in BOOLEAN :
          engine' = IF engine.state = SUPPLYING /\ engine.current_session # NoSession
                    THEN Metered(engine, lost)
                    ELSE [engine EXCEPT !.at = "sleep", !.sent = <<>>]
    /\ UNCHANGED central_vars

\* the except clauses of _status_loop
StatusExcept ==
    /\ engine.at = "except"
    /\ engine' = CloseCentralSocket([engine EXCEPT !.at = "sleep", !.sent = <<>>])
    /\ UNCHANGED central_vars

\* the environment: the connection is lost; Central starts or stops
\* accepting registrations
LinkDies ==
    /\ engine.link = "alive"
    /\ engine' = [engine EXCEPT !.link = "dead", !.sent = <<>>]
    /\ UNCHANGED central_vars

CentralTurns ==
    /\ engine' = [engine EXCEPT !.central = IF @ = "up" THEN "down" ELSE "up",
                                !.sent = <<>>]
    /\ UNCHANGED central_vars

NextPeer ==
    \/ Run
    \/ ListenWait
    \/ ListenMessage
    \/ ListenFail
    \/ TickHeartbeat
    \/ TickMeter
    \/ StatusExcept
    \/ LinkDies
    \/ CentralTurns

SpecPeer == InitPeer /\ [][NextPeer]_vars

\* the main thread is scheduled again and again
SpecPeerLive == SpecPeer /\ WF_vars(Run)

(***************************************************************************)
(* C28: there is never more than one instance of each worker loop (listen, *)
(* status, display); from the first successful connect on there is exactly *)
(* one of each, whatever the number of disconnects and reconnects.         *)
(***************************************************************************)
C28_Loops == {engine.listen, engine.status, engine.display}

C28_LoopsStartedOnce ==
    /\ \A n \in C28_Loops : n <= 1
    /\ engine.connects > 0 => C28_Loops = {1}
    /\ engine.connects = 0 => C28_Loops = {0}

\* connected for the third time
C28_Reconnected ==
    /\ engine.connects = MaxConnects
    /\ engine.connected
    /\ C28_Loops = {1}

(***************************************************************************)
(* C29: the engine never stops running; a step that loses the connection   *)
(* (connected becomes false) leaves its lifecycle state, its driver and    *)
(* its session as they are; and if from some point on Central accepts      *)
(* registrations, the engine is connected again and again.                 *)
(***************************************************************************)
C29_LosesConnection == engine.connected /\ ~engine'.connected

C29_KeepsSession ==
    /\ engine'.state = engine.state
    /\ engine'.current_driver = engine.current_driver
    /\ engine'.current_session = engine.current_session

C30_Tick ==
    /\ engine.at = "metering" /\ engine'.at # "metering"
    /\ engine.state = SUPPLYING /\ engine.current_session # NoSession
    /\ engine.connected /\ engine.link = "alive" /\ engine'.link = "alive"

C30_Sends(type) == \E i \in 1..Len(engine'.sent) : engine'.sent[i] = type

C30_Reaches ==
    LET s == engine.current_session
    IN s.kwh_delivered + (s.kwh_needed \div TicksToFull) >= s.kwh_needed

C30_TickMeters ==
    /\ [](/\ engine.current_session.kwh_delivered <= engine.current_session.kwh_needed
          /\ engine.ended <= 1)
    /\ [][C30_Tick =>
             /\ engine'.at = "sleep" /\ engine'.connected
             /\ C30_Sends("SUPPLY_UPDATE")
             /\ C30_Reaches =>
                   /\ C30_Sends("SUPPLY_END")
                   /\ engine'.state = ACTIVATED
                   /\ engine'.current_driver = None
                   /\ engine'.current_session = NoSession]_vars

\* the same ticks for the variant of charging_point/ev_cp_engine.py alone
C30_TickMetersFixed ==
    /\ [](/\ engine.current_session.kwh_delivered <= engine.current_session.kwh_needed
          /\ engine.ended <= 1)
    /\ [][(C30_Tick /\ engine.variant = "charging_point") =>
             /\ engine'.at = "sleep" /\ engine'.connected
             /\ C30_Sends("SUPPLY_UPDATE")
             /\ C30_Reaches =>
                   /\ C30_Sends("SUPPLY_END")
                   /\ engine'.state = ACTIVATED
                   /\ engine'.current_driver = None
                   /\ engine'.current_session = NoSession]_vars

(***************************************************************************)
(* C31: a step of the listen loop that handles AUTHORIZE while the engine  *)
(* is ACTIVATED makes it SUPPLYING with the driver of the frame and a new  *)
(* session (the energy needed of the frame, nothing delivered); in any     *)
(* other state the step leaves the state, the driver and the session as    *)
(* they were.  Both engines.                                               *)
(***************************************************************************)
C31_Authorize ==
    /\ engine.listening = "current"
    /\ engine'.listening = None
    /\ engine'.got.type = "AUTHORIZE"

C31_AuthorizeOnlyIfActivated ==
    [][C31_Authorize =>
          IF engine.state = ACTIVATED
          THEN /\ engine'.state = SUPPLYING
               /\ engine'.current_driver = engine'.got.driver
               /\ engine'.current_session.kwh_needed = engine'.got.kwh
               /\ engine'.current_session.kwh_delivered = 0
          ELSE /\ engine'.state = engine.state
               /\ engine'.current_driver = engine.current_driver
               /\ engine'.current_session = engine.current_session]_vars

\* AUTHORIZE for D2 was ignored in D1's session, of which energy has been
\* delivered
C31_IgnoredInSession ==
    /\ engine.got.type = "AUTHORIZE"
    /\ engine.got.driver = "D2"
    /\ engine.listening = None
    /\ engine.state = SUPPLYING
    /\ engine.current_driver = "D1"
    /\ engine.current_session.kwh_delivered > 0

(***************************************************************************)
(* C32: a step that cleans up a socket registered as a charging point      *)
(* whose record is not SUPPLYING leaves the record DISCONNECTED, with no   *)
(* current driver and the completion flag unset, its other fields as they  *)
(* were, and tells the monitor, if there is one, of the new state.         *)
(***************************************************************************)
C32_CleansUp(s) ==
    /\ s \in DOMAIN socket_to_type
    /\ s \notin DOMAIN socket_to_type'
    /\ socket_to_type[s] = "CP"
    /\ s \in DOMAIN socket_to_entity
    /\ socket_to_entity[s] \in DOMAIN charging_points
    /\ charging_points[socket_to_entity[s]].state # SUPPLYING

C32_Disconnected(old, new) ==
    /\ new.state = DISCONNECTED
    /\ new.current_driver = None
    /\ new.charging_complete = FALSE
    /\ new.kwh_delivered = old.kwh_delivered
    /\ new.amount_euro = old.amount_euro
    /\ new.kwh_needed = old.kwh_needed
    /\ new.session_start = old.session_start

C32_Told(cp_id) ==
    WEB_UI \in DOMAIN monitors =>
       \E i \in 1..Len(out') :
          /\ out'[i].type = "CP_STATE" /\ out'[i].cp = cp_id
          /\ out'[i].arg = DISCONNECTED /\ out'[i].to = monitors[WEB_UI]

C32_CleanupDisconnects ==
    [][\A s \in Sockets :
          C32_CleansUp(s) =>
             /\ C32_Disconnected(charging_points[socket_to_entity[s]],
                                 charging_points'[socket_to_entity[s]])
             /\ C32_Told(socket_to_entity[s])]_vars

\* CP1's socket was cleaned up while the record, out of order in D1's
\* session, still had its driver; the monitor has just been told
C32_ClosedWithDriver ==
    /\ pc["s1"] = "closed"
    /\ "s1" \notin DOMAIN socket_to_type
    /\ "CP1" \in DOMAIN charging_points
    /\ charging_points["CP1"].state = DISCONNECTED
    /\ charging_points["CP1"].current_driver = None
    /\ charging_points["CP1"].session_start # NoStart
    /\ "D1" \in DOMAIN drivers
    /\ drivers["D1"].current_cp = "CP1"
    /\ \E i \in 1..Len(out) : out[i].type = "CP_STATE" /\ out[i].arg = DISCONNECTED

(***************************************************************************)
(* C33: a step that cleans up a socket changes the record of no charging   *)
(* point that is bound to another socket: the record of a charging point   *)
(* that has re-registered on a newer socket is not set DISCONNECTED by the *)
(* closing of the older one.                                               *)
(***************************************************************************)
C33_Removed(s) == s \in DOMAIN socket_to_entity /\ s \notin DOMAIN socket_to_entity'

\* c is bound to another socket, on which its registration is complete
C33_BoundElsewhere(c, s) ==
    /\ c \in DOMAIN entity_to_socket
    /\ entity_to_socket[c] # s
    /\ pc[entity_to_socket[c]] = "idle"
    /\ Get(socket_to_entity, entity_to_socket[c]) = c

C33_StaleCleanupKeepsRecord ==
    [][\A s \in Sockets :
          C33_Removed(s) =>
             \A c \in DOMAIN charging_points :
                C33_BoundElsewhere(c, s) => charging_points'[c] = charging_points[c]]_vars

(***************************************************************************)
(* C34: a finalize step for driver d on charging point c (the handling of  *)
(* SUPPLY_END naming d, or the finalize that follows d's END_CHARGE),      *)
(* taken while the current driver of c is another driver, leaves the       *)
(* record of c and the record of that driver as they are.                  *)
(***************************************************************************)
C34_Finalizes(s) == pc[s] # "ticket" /\ pc'[s] = "ticket"

C34_OthersSession(s) ==
    /\ ctx'[s].cp \in DOMAIN charging_points
    /\ charging_points[ctx'[s].cp].current_driver \notin {None, ctx'[s].driver}

C34_StaleSignalKeepsSession ==
    [][\A s \in Sockets :
          (C34_Finalizes(s) /\ C34_OthersSession(s)) =>
             /\ charging_points'[ctx'[s].cp] = charging_points[ctx'[s].cp]
             /\ drivers' = drivers]_vars

\* the same for the delayed finalize of END_CHARGE alone
C34_DelayedFinalizeKeepsSession ==
    [][\A s \in Sockets :
          (C34_Finalizes(s) /\ pc[s] = "finalize" /\ C34_OthersSession(s)) =>
             charging_points'[ctx'[s].cp] = charging_points[ctx'[s].cp]]_vars

(***************************************************************************)
(* C35: when the finalize that follows END_CHARGE resets the record of a   *)
(* session that is still open for its driver, the totals it bills (those   *)
(* of the ticket) are the energy and the amount the record holds at that   *)
(* moment; and the session of one (charging point, driver, start) is       *)
(* finalized by one END_CHARGE at most.                                    *)
(***************************************************************************)
C35_Resets(s) ==
    /\ pc[s] = "finalize"
    /\ pc'[s] = "ticket"
    /\ ctx[s].cp \in DOMAIN charging_points
    /\ charging_points[ctx[s].cp].current_driver = ctx[s].driver

C35_BillsWhatWasMetered ==
    [][\A s \in Sockets :
          C35_Resets(s) =>
             /\ ctx'[s].kwh = charging_points[ctx[s].cp].kwh_delivered
             /\ ctx'[s].amount = charging_points[ctx[s].cp].amount_euro
             /\ \A t \in Sockets \ {s} :
                   ~(pc[t] \in {"send_to_cp", "cleanup_peer", "finalize"}
                     /\ ctx[t].type = "END_CHARGE"
                     /\ ctx[t].cp = ctx[s].cp /\ ctx[t].driver = ctx[s].driver)]_vars

(***************************************************************************)
(* C36: in every state every charging-point record is SUPPLYING exactly    *)
(* when it has a current driver.                                           *)
(***************************************************************************)
C36_SupplyingIffDriver ==
    \A c \in DOMAIN charging_points :
       (charging_points[c].state = SUPPLYING) <=> (charging_points[c].current_driver # None)

\* one half alone, which a heartbeat reporting SUPPLYING breaks: a
\* SUPPLYING record has a driver
C36_SupplyingHasDriver ==
    \A c \in DOMAIN charging_points :
       charging_points[c].state = SUPPLYING => charging_points[c].current_driver # None

(***************************************************************************)
(* C37: in every state a registered driver is CHARGING at charging point c *)
(* exactly when it is the current driver of c.                             *)
(***************************************************************************)
C37_ChargingAt(d, c) ==
    /\ drivers[d].status = "CHARGING"
    /\ drivers[d].current_cp = c

C37_DriverOf(d, c) ==
    /\ c \in DOMAIN charging_points
    /\ charging_points[c].current_driver = d

C37_RecordsAgree ==
    \A d \in DOMAIN drivers : \A c \in CPs : C37_ChargingAt(d, c) <=> C37_DriverOf(d, c)

\* one half alone: a driver that is CHARGING at c is the current driver of c
C37_ChargingHasSession ==
    \A d \in DOMAIN drivers : \A c \in CPs : C37_ChargingAt(d, c) => C37_DriverOf(d, c)

(***************************************************************************)
(* SpecFleet: two charging points and two drivers, all registered (CP1 on  *)
(* s1, CP2 on s2, D1 on s3, D2 on s4) and idle.  The drivers ask for       *)
(* either charging point and end their charges; the charging points end   *)
(* their sessions.                                                         *)
(***************************************************************************)
FleetBinding == [e \in CPs \cup Drivers |->
                    CASE e = "CP1" -> "s1" [] e = "CP2" -> "s2"
                      [] e = "D1" -> "s3" [] OTHER -> "s4"]

InitFleet ==
    /\ charging_points = [c \in CPs |-> CPRecord(ACTIVATED, None, 0, 0, NoStart, FALSE, 0)]
    /\ drivers = [d \in Drivers |-> DriverRecord("IDLE", None)]
    /\ entity_to_socket = FleetBinding
    /\ socket_to_entity = [s \in Sockets |-> CHOOSE e \in CPs \cup Drivers : FleetBinding[e] = s]
    /\ socket_to_type = [s \in Sockets |-> IF s \in {"s1", "s2"} THEN "CP" ELSE "DRIVER"]
    /\ monitors = EmptyDict
    /\ active_connections = Sockets
    /\ cp_encryption_keys = [c \in CPs |-> KeyOf(c)]
    /\ lock = None
    /\ pc = [s \in Sockets |-> "idle"]
    /\ ctx = [s \in Sockets |-> NoMsg]
    /\ clock = 1
    /\ out = <<>>
    /\ tickets = PairZero
    /\ history = PairZero
    /\ opened = PairZero
    /\ ends = PairZero
    /\ InitIo

FleetFrames(s) ==
    LET e == FleetBinding
        me == CHOOSE x \in CPs \cup Drivers : e[x] = s
    IN IF me \in CPs
       THEN {SupplyEnd(me, d, 1, Price) : d \in Drivers}
       ELSE {RequestCharge(me, c, 1) : c \in CPs} \cup {EndCharge(me, c) : c \in CPs}

NextFleet ==
    \E s \in Sockets :
       \/ \E m \in FleetFrames(s) : Handle(s, m)
       \/ AddLog(s)
       \/ SendToCP(s)
       \/ FinalizeReset(s)
       \/ FinalizeTicket(s)

SpecFleet == InitFleet /\ [][NextFleet]_vars

(***************************************************************************)
(* C38: in no state is one driver the current driver of two charging       *)
(* points.                                                                 *)
(***************************************************************************)
C38_OneSessionPerDriver ==
    \A c1, c2 \in DOMAIN charging_points :
       (/\ charging_points[c1].current_driver # None
        /\ charging_points[c1].current_driver = charging_points[c2].current_driver)
          => c1 = c2

(***************************************************************************)
(* C39: a step that accepts a REQUEST_CHARGE accepts it for a charging     *)
(* point that is bound to a socket; and no step makes ACTIVATED a record   *)
(* whose charging point is bound to no socket.                             *)
(***************************************************************************)
C39_Accepts(s) ==
    /\ pc[s] = "idle"
    /\ pc'[s] = "add_log"
    /\ ctx'[s].type = "REQUEST_CHARGE"

C39_Activated(c) ==
    /\ c \in DOMAIN charging_points'
    /\ charging_points'[c].state = ACTIVATED
    /\ c \in DOMAIN charging_points => charging_points[c].state # ACTIVATED

C39_AuthorizedOnlyIfReachable ==
    [][/\ \A s \in Sockets :
             C39_Accepts(s) => ctx'[s].cp \in DOMAIN entity_to_socket
       /\ \A c \in CPs :
             C39_Activated(c) => c \in DOMAIN entity_to_socket']_vars

\* the first half alone
C39_AcceptedOnlyIfBound ==
    [][\A s \in Sockets :
          C39_Accepts(s) => ctx'[s].cp \in DOMAIN entity_to_socket]_vars

(***************************************************************************)
(* The monitor (web_ui/web/socket_client.py, CentralUIClient, with         *)
(* web_ui/web/state.py, UIState): it mirrors the charging points from the  *)
(* events Central sends to the WEB_UI socket.  Of a mirrored record the    *)
(* energy and the amount are kept.  charging_point/ev_cp_monitor.py keeps  *)
(* the same two numbers by the same rules.                                 *)
(***************************************************************************)
MirrorRecord(kwh, amount) == [kwh_delivered |-> kwh, amount_euro |-> amount]

\* UIState.update_cp: setdefault, then update with the fields given
Known(ui, cp_id) == IF cp_id \in DOMAIN ui THEN ui[cp_id] ELSE MirrorRecord(0, 0)

\* UIState.set_full_state with the list _send_full_state_to_ui built
SetFullState(cps) ==
    [c \in DOMAIN cps |-> MirrorRecord(cps[c].kwh_delivered, cps[c].amount_euro)]

\* CentralUIClient._handle_message.  The list FULL_STATE carries is Central's
\* records as of the step that sent it, which are Central's records still
\* when the monitor handles a frame before Central's next step.
HandleMessage(ui, m) ==
    CASE m.type = "FULL_STATE" -> SetFullState(charging_points)
      [] m.type \in {"DRIVER_START", "SUPPLY_END", "DRIVER_STOP"} ->
            Put(ui, m.cp, MirrorRecord(0, 0))
      [] m.type = "SUPPLY_UPDATE" ->
            Put(ui, m.cp, MirrorRecord(Known(ui, m.cp).kwh_delivered + m.kwh, m.amount))
      [] m.type \in {"CP_STATE", "FAULT", "RECOVERY"} -> Put(ui, m.cp, Known(ui, m.cp))
      [] OTHER -> ui

\* what the last step of Central sent to the monitor
ToMonitor == SelectSeq(out, LAMBDA x : x.to = Get(monitors, WEB_UI))

RECURSIVE HandleAll(_, _)
HandleAll(ui, msgs) ==
    IF msgs = <<>> THEN ui ELSE HandleAll(HandleMessage(ui, Head(msgs)), Tail(msgs))

\* _listen_loop: the frames received are handled in the order sent
UIHandles ==
    /\ ToMonitor # <<>>
    /\ mirror' = HandleAll(mirror, ToMonitor)
    /\ out' = <<>>
    /\ UNCHANGED <<charging_points, drivers, registry, cp_encryption_keys, lock, pc,
                   ctx, clock, counts, ends, wire, buffer, handed, engine>>

(***************************************************************************)
(* SpecMirror: the connections of InitEngine, an engine that meters one    *)
(* kWh per update and reports its running total, a driver that asks for    *)
(* CP1, and the monitor, which handles what Central sends it before        *)
(* Central takes its next step.                                            *)
(***************************************************************************)
MirrorWire(cp_id) ==
    {SupplyUpdate(cp_id, 1, (charging_points[cp_id].kwh_delivered + 1) * Price),
     SupplyEnd(cp_id, "D1", charging_points[cp_id].kwh_delivered,
               charging_points[cp_id].amount_euro)}

MirrorFrame(s) ==
    \E m \in MirrorWire("CP1") :
       /\ ToMonitor = <<>>
       /\ pc[s] = "idle"
       /\ EngineSends(s, m)
       /\ charging_points[m.cp].current_driver = "D1"
       /\ ends' = IF IsEnd(m) THEN [ends EXCEPT ![<<m.cp, m.driver>>] = @ + 1] ELSE ends
       /\ UNCHANGED io
       /\ Dispatch(s, m)

NextMirror ==
    \/ MirrorFrame("s1")
    \/ ToMonitor = <<>> /\ DriverAsks("s2")
    \/ \E s \in Sockets :
          \/ ToMonitor = <<>> /\ AddLog(s)
          \/ ToMonitor = <<>> /\ SendToCP(s)
          \/ ToMonitor = <<>> /\ ForwardUpdate(s)
          \/ ToMonitor = <<>> /\ FinalizeTicket(s)
    \/ UIHandles

SpecMirror == InitEngine /\ [][NextMirror]_vars

(***************************************************************************)
(* C40: when the monitor has handled a SUPPLY_UPDATE Central forwarded for *)
(* a charging point, the energy and the amount of its mirrored record are  *)
(* the accumulated energy and amount of Central's record.                  *)
(***************************************************************************)
C40_Forwarded(c) ==
    \E i \in 1..Len(out) :
       /\ out[i].to = Get(monitors, WEB_UI)
       /\ out[i].type = "SUPPLY_UPDATE"
       /\ out[i].cp = c

C40_Handled == out # <<>> /\ out' = <<>> /\ pc' = pc /\ charging_points' = charging_points

C40_MirrorFollows ==
    [][\A c \in DOMAIN charging_points :
          (C40_Handled /\ C40_Forwarded(c)) =>
             /\ c \in DOMAIN mirror'
             /\ mirror'[c].kwh_delivered = charging_points[c].kwh_delivered
             /\ mirror'[c].amount_euro = charging_points[c].amount_euro]_vars

\* the amount alone, which the monitor stores as sent
C40_AmountFollows ==
    [][\A c \in DOMAIN charging_points :
          (C40_Handled /\ C40_Forwarded(c)) =>
             /\ c \in DOMAIN mirror'
             /\ mirror'[c].amount_euro = charging_points[c].amount_euro]_vars

====
